---- MODULE Spec2Model ----
(***************************************************************************)
(* Subtitle Forge (fyne-gui/main.go) and the gmmmkvsubsextract CLI          *)
(* (main.go): the batch extraction worker started by "Start Extraction",    *)
(* the presentation layer's update queue (fyne.Do), the user's handlers     *)
(* and the files the external tools leave behind.                           *)
(***************************************************************************)
EXTENDS Integers, Sequences, FiniteSets, TLC

\* ------------------------------------------------------------------ bounds

\* user events (file select, directory change, load, start) in one behaviour
MaxClicks == 4
\* closures handed to fyne.Do and not yet run by the main goroutine
MaxQueue == 2
\* tasks begun by all batch workers of one behaviour
MaxTasks == 2
\* track objects in one report of mkvmerge
MaxTracks == 2
\* lines read from the converter during one conversion
MaxLines == 3
\* largest frame number of a progress line
MaxFrame == 3
\* operations of the Utilities tab on one SRT file
MaxOps == 2

\* ------------------------------------------------------------- environment

\* The MKV files the user can pick; a path is kept as directory and base name,
\* so filepath.Dir and filepath.Base/TrimSuffix are the two projections.
NoPath == [dir |-> "", base |-> "", ext |-> ""]
MkvFiles == {[dir |-> "d1", base |-> "a", ext |-> ".mkv"],
             [dir |-> "d2", base |-> "b", ext |-> ".mkv"]}
\* what the file dialog or a drop can hand over: the MKV files and one other file
Picks == MkvFiles \cup {[dir |-> "d1", base |-> "n", ext |-> ".txt"]}
Dirs == {"d1", "d2"}

\* What mkvmerge -J reports for each file: id, language property ("" when the
\* property is missing) and codec of its subtitle tracks.
MkvmergeTracks(p) ==
    IF p.base = "a"
    THEN << [id |-> 2, lang |-> "eng", codec |-> "HDMV PGS"],
            [id |-> 3, lang |-> "",    codec |-> "SubRip/SRT"] >>
    ELSE << [id |-> 2, lang |-> "eng", codec |-> "SubStationAlpha"],
            [id |-> 3, lang |-> "ger", codec |-> "VobSub"] >>

\* ------------------------------------------------------------------ strings

Chars(s) ==
    CASE s = "HDMV PGS"          -> <<"H","D","M","V"," ","P","G","S">>
      [] s = "hdmv_pgs_subtitle" -> <<"h","d","m","v","_","p","g","s","_","s","u","b","t","i","t","l","e">>
      [] s = "SubRip/SRT"        -> <<"S","u","b","R","i","p","/","S","R","T">>
      [] s = "VobSub"            -> <<"V","o","b","S","u","b">>
      [] s = "vobsub"            -> <<"v","o","b","s","u","b">>
      [] s = "SubStationAlpha"   -> <<"S","u","b","S","t","a","t","i","o","n","A","l","p","h","a">>
      [] s = "ass"               -> <<"a","s","s">>
      [] s = "ssa"               -> <<"s","s","a">>
      [] s = "substation"        -> <<"s","u","b","s","t","a","t","i","o","n">>
      [] s = "sub station"       -> <<"s","u","b"," ","s","t","a","t","i","o","n">>
      [] s = "SubRip"            -> <<"S","u","b","R","i","p">>
      [] s = "subrip"            -> <<"s","u","b","r","i","p">>
      [] s = "SRT"               -> <<"S","R","T">>
      [] s = "srt"               -> <<"s","r","t">>
      [] s = "sup"               -> <<"s","u","p">>
      [] s = "idx"               -> <<"i","d","x">>
      [] s = "ASS"               -> <<"A","S","S">>
      [] s = "SSA"               -> <<"S","S","A">>
      [] s = "conversion.log"    -> <<"c","o","n","v","e","r","s","i","o","n",".","l","o","g">>
      [] s = "hdmv pgs"          -> <<"h","d","m","v"," ","p","g","s">>
      [] s = "VOBSUB"            -> <<"V","O","B","S","U","B">>
      [] s = "Timed Text"        -> <<"T","i","m","e","d"," ","T","e","x","t">>
      [] s = ".track"            -> <<".","t","r","a","c","k">>
      [] s = "eng"               -> <<"e","n","g">>
      [] s = "ger"               -> <<"g","e","r">>
      [] s = "und"               -> <<"u","n","d">>
      [] s = "a"                 -> <<"a">>
      [] s = "x"                 -> <<"x">>
      [] s = "Matroska"          -> <<"M","a","t","r","o","s","k","a">>
      [] s = " MATROSKA "        -> <<" ","M","A","T","R","O","S","K","A"," ">>
      [] s = "matroska"          -> <<"m","a","t","r","o","s","k","a">>
      [] s = "WebM"              -> <<"W","e","b","M">>
      [] s = ".mkv"              -> <<".","m","k","v">>
      [] s = ".forced"           -> <<".","f","o","r","c","e","d">>
      [] s = "d/a.mkv"           -> <<"d","/","a",".","m","k","v">>
      [] s = "a.MKV"             -> <<"a",".","M","K","V">>
      [] s = "d/n.txt"           -> <<"d","/","n",".","t","x","t">>
      [] s = "d"                 -> <<"d">>
      [] s = "Auto"             -> <<"A","u","t","o">>
      [] s = "Auto ("           -> <<"A","u","t","o"," ","(">>
      [] s = "English (en)"     -> <<"E","n","g","l","i","s","h"," ","(","e","n",")">>
      [] s = "French (fr)"      -> <<"F","r","e","n","c","h"," ","(","f","r",")">>
      [] s = "German (de)"      -> <<"G","e","r","m","a","n"," ","(","d","e",")">>
      [] s = "Spanish (es)"     -> <<"S","p","a","n","i","s","h"," ","(","e","s",")">>
      [] s = "Italian (it)"     -> <<"I","t","a","l","i","a","n"," ","(","i","t",")">>
      [] s = "Portuguese (pt)"  -> <<"P","o","r","t","u","g","u","e","s","e"," ","(","p","t",")">>
      [] s = "Dutch (nl)"       -> <<"D","u","t","c","h"," ","(","n","l",")">>
      [] s = "Russian (ru)"     -> <<"R","u","s","s","i","a","n"," ","(","r","u",")">>
      [] s = "Japanese (ja)"    -> <<"J","a","p","a","n","e","s","e"," ","(","j","a",")">>
      [] s = "Chinese (zh)"     -> <<"C","h","i","n","e","s","e"," ","(","z","h",")">>
      [] s = "Korean (ko)"      -> <<"K","o","r","e","a","n"," ","(","k","o",")">>
      [] s = "Czech (cs)"       -> <<"C","z","e","c","h"," ","(","c","s",")">>
      [] s = "Polish (pl)"      -> <<"P","o","l","i","s","h"," ","(","p","l",")">>
      [] s = "Swedish (sv)"     -> <<"S","w","e","d","i","s","h"," ","(","s","v",")">>
      [] s = "Danish (da)"      -> <<"D","a","n","i","s","h"," ","(","d","a",")">>
      [] s = "Finnish (fi)"     -> <<"F","i","n","n","i","s","h"," ","(","f","i",")">>
      [] s = "Norwegian (no)"   -> <<"N","o","r","w","e","g","i","a","n"," ","(","n","o",")">>
      [] s = "Hungarian (hu)"   -> <<"H","u","n","g","a","r","i","a","n"," ","(","h","u",")">>
      [] s = "Greek (el)"       -> <<"G","r","e","e","k"," ","(","e","l",")">>
      [] s = "Turkish (tr)"     -> <<"T","u","r","k","i","s","h"," ","(","t","r",")">>
      [] s = "Arabic (ar)"      -> <<"A","r","a","b","i","c"," ","(","a","r",")">>
      [] s = "Hebrew (he)"      -> <<"H","e","b","r","e","w"," ","(","h","e",")">>
      [] s = "Thai (th)"        -> <<"T","h","a","i"," ","(","t","h",")">>
      [] s = "en"               -> <<"e","n">>
      [] s = "fr"               -> <<"f","r">>
      [] s = "de"               -> <<"d","e">>
      [] s = "it"               -> <<"i","t">>
      [] s = "es"               -> <<"e","s">>
      [] s = "pt"               -> <<"p","t">>
      [] s = "nl"               -> <<"n","l">>
      [] s = "sv"               -> <<"s","v">>
      [] s = "no"               -> <<"n","o">>
      [] s = "da"               -> <<"d","a">>
      [] s = "fi"               -> <<"f","i">>
      [] s = "ja"               -> <<"j","a">>
      [] s = "ko"               -> <<"k","o">>
      [] s = "zh"               -> <<"z","h">>
      [] s = "ru"               -> <<"r","u">>
      [] s = "pl"               -> <<"p","l">>
      [] s = "cs"               -> <<"c","s">>
      [] s = "hu"               -> <<"h","u">>
      [] s = "el"               -> <<"e","l">>
      [] s = "tr"               -> <<"t","r">>
      [] s = "ar"               -> <<"a","r">>
      [] s = "he"               -> <<"h","e">>
      [] s = "th"               -> <<"t","h">>
      [] s = "fre"              -> <<"f","r","e">>
      [] s = "fra"              -> <<"f","r","a">>
      [] s = "deu"              -> <<"d","e","u">>
      [] s = "ita"              -> <<"i","t","a">>
      [] s = "spa"              -> <<"s","p","a">>
      [] s = "por"              -> <<"p","o","r">>
      [] s = "dut"              -> <<"d","u","t">>
      [] s = "nld"              -> <<"n","l","d">>
      [] s = "swe"              -> <<"s","w","e">>
      [] s = "nor"              -> <<"n","o","r">>
      [] s = "dan"              -> <<"d","a","n">>
      [] s = "fin"              -> <<"f","i","n">>
      [] s = "jpn"              -> <<"j","p","n">>
      [] s = "kor"              -> <<"k","o","r">>
      [] s = "chi"              -> <<"c","h","i">>
      [] s = "zho"              -> <<"z","h","o">>
      [] s = "rus"              -> <<"r","u","s">>
      [] s = "pol"              -> <<"p","o","l">>
      [] s = "cze"              -> <<"c","z","e">>
      [] s = "ces"              -> <<"c","e","s">>
      [] s = "hun"              -> <<"h","u","n">>
      [] s = "gre"              -> <<"g","r","e">>
      [] s = "ell"              -> <<"e","l","l">>
      [] s = "tur"              -> <<"t","u","r">>
      [] s = "ara"              -> <<"a","r","a">>
      [] s = "heb"              -> <<"h","e","b">>
      [] s = "tha"              -> <<"t","h","a">>
      [] s = "mul"              -> <<"m","u","l">>
      [] OTHER                   -> << >>

Upper == <<"A","B","C","D","E","F","G","H","I","J","K","L","M",
           "N","O","P","Q","R","S","T","U","V","W","X","Y","Z">>
Lower == <<"a","b","c","d","e","f","g","h","i","j","k","l","m",
           "n","o","p","q","r","s","t","u","v","w","x","y","z">>

\* strings.ToLower on a character sequence
ToLower(cs) ==
    [i \in 1..Len(cs) |->
        IF \E k \in 1..Len(Upper) : Upper[k] = cs[i]
        THEN Lower[CHOOSE k \in 1..Len(Upper) : Upper[k] = cs[i]]
        ELSE cs[i]]

\* strings.Contains on character sequences
Contains(cs, sub) ==
    \E i \in 1..(Len(cs) - Len(sub) + 1) : SubSeq(cs, i, i + Len(sub) - 1) = sub

Digits == <<"0","1","2","3","4","5","6","7","8","9">>

\* strconv.Itoa, and the verb %d, for n >= 0
RECURSIVE Itoa(_)
Itoa(n) ==
    IF n < 10 THEN <<Digits[n + 1]>>
    ELSE Itoa(n \div 10) \o <<Digits[(n % 10) + 1]>>

\* strings.TrimSpace
RECURSIVE TrimSpace(_)
TrimSpace(cs) ==
    IF cs = << >> THEN cs
    ELSE IF Head(cs) = " " THEN TrimSpace(Tail(cs))
    ELSE IF cs[Len(cs)] = " " THEN TrimSpace(SubSeq(cs, 1, Len(cs) - 1))
    ELSE cs

\* strings.TrimSuffix
TrimSuffix(cs, suf) ==
    IF Len(suf) <= Len(cs) /\ SubSeq(cs, Len(cs) - Len(suf) + 1, Len(cs)) = suf
    THEN SubSeq(cs, 1, Len(cs) - Len(suf))
    ELSE cs

\* strings.LastIndex for one character, 1-based; 0 when there is none
LastIndex(cs, ch) ==
    IF \E i \in 1..Len(cs) : cs[i] = ch
    THEN CHOOSE i \in 1..Len(cs) : cs[i] = ch /\ \A j \in (i + 1)..Len(cs) : cs[j] # ch
    ELSE 0

\* path.Dir, path.Base and path.Ext on a clean, non-empty path
PathDir(cs) ==
    IF LastIndex(cs, "/") = 0 THEN <<".">>
    ELSE IF LastIndex(cs, "/") = 1 THEN <<"/">>
    ELSE SubSeq(cs, 1, LastIndex(cs, "/") - 1)

PathBase(cs) == SubSeq(cs, LastIndex(cs, "/") + 1, Len(cs))

PathExt(cs) ==
    IF LastIndex(PathBase(cs), ".") = 0 THEN << >>
    ELSE SubSeq(PathBase(cs), LastIndex(PathBase(cs), "."), Len(PathBase(cs)))

\* path.Join of a clean directory and a file name without a slash
PathJoin(dir, name) == IF dir = <<".">> THEN name ELSE dir \o <<"/">> \o name

IsPgsCodec(codec) == codec = "hdmv_pgs_subtitle" \/ codec = "HDMV PGS"

IsVobSubCodec(codec) == codec = "vobsub" \/ codec = "VobSub"

IsAssCodec(codec) ==
    \/ Contains(ToLower(Chars(codec)), Chars("ass"))
    \/ Contains(ToLower(Chars(codec)), Chars("ssa"))
    \/ Contains(ToLower(Chars(codec)), Chars("substation"))
    \/ Contains(ToLower(Chars(codec)), Chars("sub station"))

\* -------------------------------------------------------------------- state

VARIABLES
    mkvPath,     \* var mkvPath string
    outDir,      \* var outDir string
    trackItems,  \* var trackItems []*TrackItem: references into heap
    heap,        \* every TrackItem allocated so far
    workers,     \* the goroutines started by Start Extraction, with their locals
    uiQueue,     \* closures passed to fyne.Do and not yet run
    fs,          \* the files under the output directories: path -> content
    progress,    \* the overall progress bar
    result,      \* the failures the result text shows
    clicks,      \* user events so far
    tasks,       \* tasks begun so far
    cli,         \* the gmmmkvsubsextract command-line process (main.go)
    probe        \* one run of Load Tracks and of the loop's naming on one report

gui == <<mkvPath, outDir, trackItems, heap, workers, uiQueue, fs, progress, result,
        clicks, tasks>>

vars == <<gui, cli, probe>>

\* --------------------------------------------------------------- file system

\* fmt.Sprintf("%s.track%d_%s.%s", mkvBaseName, t.Num, t.Lang, ext) under a directory
TrackFile(dir, base, t, ext) ==
    [dir |-> dir, base |-> base, num |-> t.Num, lang |-> t.Lang, ext |-> ext]

\* a file name built without the track's number
TrackFileNameNoNum(base, t, ext) ==
    base \o Chars(".track") \o <<"_">> \o Chars(t.Lang) \o <<".">> \o ext

\* the same file name as the string fmt.Sprintf builds
TrackFileName(base, t, ext) ==
    base \o Chars(".track") \o Itoa(t.Num) \o <<"_">> \o Chars(t.Lang) \o <<".">> \o ext

Exists(f, p) == p \in DOMAIN f

\* os.Stat(p).Size() > 0
NonEmpty(f, p) == Exists(f, p) /\ f[p].kind # "empty"

\* a tool or os.WriteFile creating or truncating p and leaving content c in it
WriteFile(f, p, c) == [q \in DOMAIN f \cup {p} |-> IF q = p THEN c ELSE f[q]]

\* os.Remove
RemoveFile(f, p) == [q \in DOMAIN f \ {p} |-> f[q]]

Content(kind, w) == [kind |-> kind, by |-> w]

\* --------------------------------------------------------------------- Init

\* the window right after main has built it
GuiInit ==
    /\ mkvPath = NoPath
    /\ outDir = ""
    /\ trackItems = << >>
    /\ heap = << >>
    /\ workers = << >>
    /\ uiQueue = << >>
    /\ fs = << >>
    /\ progress = [max |-> 1, value |-> 0, visible |-> TRUE]
    /\ result = {}
    /\ clicks = 0
    /\ tasks = 0

\* the command-line process not started, no report under inspection
NotStarted == [pc |-> "off"]

Init ==
    /\ GuiInit
    /\ cli = NotStarted
    /\ probe = NotStarted

\* ------------------------------------------------------------ user handlers

\* The TrackItem Load Tracks builds for one subtitle track of mkvmerge's output.
NewTrackItem(m) ==
    [ Num        |-> m.id,
      Lang       |-> IF m.lang # "" THEN m.lang ELSE "und",
      Codec      |-> m.codec,
      State      |-> "Pending",
      Checked    |-> TRUE,
      ConvertOCR |-> IF IsPgsCodec(m.codec) \/ IsAssCodec(m.codec) \/ IsVobSubCodec(m.codec)
                     THEN "checked" ELSE "nil" ]

\* a file selection that keeps the tracks listed for the file selected before
SelectFileKeepsTracks(p) ==
    /\ clicks < MaxClicks
    /\ IF p.ext # ".mkv"
       THEN UNCHANGED vars
       ELSE /\ mkvPath' = p
            /\ outDir' = p.dir
            /\ clicks' = clicks + 1
            /\ UNCHANGED <<trackItems, heap, workers, uiQueue, fs, progress, result, tasks, cli, probe>>

\* fileBtn's dialog callback
SelectFile(p) ==
    /\ clicks < MaxClicks
    /\ IF p.ext # ".mkv"
       THEN UNCHANGED vars
       ELSE /\ mkvPath' = p
            /\ outDir' = p.dir
            /\ trackItems' = << >>
            /\ clicks' = clicks + 1
            /\ UNCHANGED <<heap, workers, uiQueue, fs, progress, result, tasks, cli, probe>>

\* w.SetOnDropped
DropFile(p) ==
    /\ clicks < MaxClicks
    /\ IF p.ext # ".mkv"
       THEN UNCHANGED vars
       ELSE /\ mkvPath' = p
            /\ outDir' = p.dir
            /\ trackItems' = << >>
            /\ clicks' = clicks + 1
            /\ UNCHANGED <<heap, workers, uiQueue, fs, progress, result, tasks, cli, probe>>

\* dirBtn's dialog callback
ChangeDir(d) ==
    /\ clicks < MaxClicks
    /\ outDir' = d
    /\ clicks' = clicks + 1
    /\ UNCHANGED <<mkvPath, trackItems, heap, workers, uiQueue, fs, progress, result, tasks, cli, probe>>

\* loadTracksBtn: mkvmergeOk is whether mkvmerge -J ran and its output parsed
LoadTracks(mkvmergeOk) ==
    /\ clicks < MaxClicks
    /\ IF mkvPath = NoPath \/ ~mkvmergeOk
       THEN UNCHANGED vars
       ELSE LET ms == MkvmergeTracks(mkvPath)
            IN /\ heap' = heap \o [k \in 1..Len(ms) |-> NewTrackItem(ms[k])]
               /\ trackItems' = [k \in 1..Len(ms) |-> Len(heap) + k]
               /\ clicks' = clicks + 1
               /\ UNCHANGED <<mkvPath, outDir, workers, uiQueue, fs, progress, result, tasks, cli, probe>>

\* the user ticking or clearing a track's Check box
ToggleCheck(k) ==
    /\ clicks < MaxClicks
    /\ k \in 1..Len(trackItems)
    /\ heap' = [heap EXCEPT ![trackItems[k]].Checked = ~@]
    /\ clicks' = clicks + 1
    /\ UNCHANGED <<mkvPath, outDir, trackItems, workers, uiQueue, fs, progress, result, tasks, cli, probe>>

\* the user ticking or clearing a track's "Convert to SRT" box
ToggleOCR(k) ==
    /\ clicks < MaxClicks
    /\ k \in 1..Len(trackItems)
    /\ heap[trackItems[k]].ConvertOCR # "nil"
    /\ heap' = [heap EXCEPT ![trackItems[k]].ConvertOCR =
                    IF @ = "checked" THEN "unchecked" ELSE "checked"]
    /\ clicks' = clicks + 1
    /\ UNCHANGED <<mkvPath, outDir, trackItems, workers, uiQueue, fs, progress, result, tasks, cli, probe>>

\* A batch worker right after "go func()": nothing selected, nothing run yet.
NewWorker ==
    [ pc |-> "select", selected |-> << >>, i |-> 1, tracksDone |-> 0,
      err |-> "nil", output |-> 0,
      base |-> "", src |-> "", exDir |-> "", statDir |-> "", convDir |-> "", logDir |-> "",
      tmp |-> "none", wrote |-> "none",
      branch |-> "", missing |-> FALSE, promoted |-> "none",
      ticking |-> {}, log |-> "none" ]

\* startExtractBtn, also bound to Ctrl+E by setupKeyboardShortcuts
StartExtraction ==
    /\ clicks < MaxClicks
    /\ IF mkvPath = NoPath \/ outDir = ""
       THEN UNCHANGED vars
       ELSE /\ workers' = Append(workers, NewWorker)
            /\ clicks' = clicks + 1
            /\ UNCHANGED <<mkvPath, outDir, trackItems, heap, uiQueue, fs, progress, result, tasks, cli, probe>>

\* ------------------------------------------------------------- batch worker

\* the loop's t: the TrackItem of the task worker w is at
CurRef(w) == workers[w].selected[workers[w].i]
Cur(w) == heap[CurRef(w)]

\* A closure handed to fyne.Do. It holds references to the worker's variables and
\* to the TrackItem. The own* fields are history: what the worker's task looked
\* like when the worker queued the closure (err, tracksDone, the branch taken,
\* whether the converter was found missing, what was copied to the final path).
Closure(kind, w, t) ==
    [kind |-> kind, w |-> w, t |-> t,
     ownErr |-> workers[w].err, ownDone |-> workers[w].tracksDone,
     ownBranch |-> workers[w].branch, ownMissing |-> workers[w].missing,
     ownPromoted |-> workers[w].promoted]

\* what one run of mkvextract can do: its exit status and the file it leaves
\* ("keep": it wrote nothing, whatever was at the destination is still there)
ExtractOutcomes ==
    { [exit |-> "nil",     file |-> "full"],
      [exit |-> "nil",     file |-> "empty"],
      [exit |-> "nil",     file |-> "keep"],
      [exit |-> "extract", file |-> "keep"] }

AfterExtract(f, p, o, w) ==
    IF o.file = "keep" THEN f ELSE WriteFile(f, p, Content(o.file, w))

\* the worker's first statements: the tracks whose Check box is ticked
WorkerSelect(w) ==
    /\ w \in 1..Len(workers)
    /\ workers[w].pc = "select"
    /\ LET sel == SelectSeq(trackItems, LAMBDA r : heap[r].Checked)
       IN IF Len(sel) = 0
          THEN /\ workers' = [workers EXCEPT ![w].pc = "exit"]
               /\ UNCHANGED uiQueue
          ELSE /\ Len(uiQueue) < MaxQueue
               /\ workers' = [workers EXCEPT ![w].pc = "loop", ![w].selected = sel]
               /\ uiQueue' = Append(uiQueue, Closure("setup", w, 0))
    /\ UNCHANGED <<mkvPath, outDir, trackItems, heap, fs, progress, result, clicks, tasks, cli, probe>>

\* file extension of a track extracted without conversion
PassExt(codec) ==
    IF \/ Contains(Chars(codec), Chars("SubRip")) \/ Contains(Chars(codec), Chars("subrip"))
       \/ Contains(Chars(codec), Chars("SRT"))    \/ Contains(Chars(codec), Chars("srt"))
    THEN Chars("srt")
    ELSE IF IsPgsCodec(codec) THEN Chars("sup")
    ELSE IF codec = "ass" \/ codec = "ssa" \/ codec = "ASS" \/ codec = "SSA" THEN Chars("ass")
    ELSE IF IsVobSubCodec(codec) THEN Chars("idx")
    ELSE ToLower([k \in 1..Len(Chars(codec)) |->
                    IF Chars(codec)[k] = "/" THEN "_" ELSE Chars(codec)[k]])

\* which branch of the loop body a track takes
Branch(t) ==
    IF t.ConvertOCR = "checked" /\ IsPgsCodec(t.Codec) THEN "pgs"
    ELSE IF t.ConvertOCR = "checked" /\ IsAssCodec(t.Codec) THEN "ass"
    ELSE IF t.ConvertOCR = "checked" /\ IsVobSubCodec(t.Codec) THEN "vob"
    ELSE "pass"

\* top of the loop body: mkvBaseName and the choice of branch
WorkerNextTask(w) ==
    /\ w \in 1..Len(workers)
    /\ workers[w].pc = "loop"
    /\ workers[w].i <= Len(workers[w].selected)
    /\ tasks < MaxTasks
    /\ tasks' = tasks + 1
    /\ workers' = [workers EXCEPT ![w].pc = Branch(Cur(w)) \o "_start",
                                  ![w].branch = Branch(Cur(w)),
                                  ![w].base = mkvPath.base]
    /\ UNCHANGED <<mkvPath, outDir, trackItems, heap, uiQueue, fs, progress, result, clicks, cli, probe>>

\* after the loop: the final update is queued and the goroutine ends
WorkerFinish(w) ==
    /\ w \in 1..Len(workers)
    /\ workers[w].pc = "loop"
    /\ workers[w].i > Len(workers[w].selected)
    /\ Len(uiQueue) < MaxQueue
    /\ uiQueue' = Append(uiQueue, Closure("final", w, 0))
    /\ workers' = [workers EXCEPT ![w].pc = "done"]
    /\ UNCHANGED <<mkvPath, outDir, trackItems, heap, fs, progress, result, clicks, tasks, cli, probe>>

\* exec.Command("mkvextract", "tracks", mkvPath, "<Num>:<file>") with cmd.Dir = outDir,
\* up to the start of the tool
ExtractStart(w, branch) ==
    /\ w \in 1..Len(workers)
    /\ workers[w].pc = branch \o "_start"
    /\ workers' = [workers EXCEPT ![w].pc = branch \o "_extracting",
                                  ![w].exDir = outDir,
                                  ![w].src = mkvPath.base]
    /\ UNCHANGED <<mkvPath, outDir, trackItems, heap, uiQueue, fs, progress, result, clicks, tasks, cli, probe>>

\* err after mkvextract has returned and the extracted file has been looked at
\* with os.Stat(filepath.Join(outDir, file))
StatErr(f, q, exit) ==
    IF ~Exists(f, q) THEN "stat"
    ELSE IF ~NonEmpty(f, q) THEN "empty"
    ELSE exit

PgsExtractStart(w) == ExtractStart(w, "pgs")

\* PGS: mkvextract returns, the .sup file is checked
PgsExtractDone(w, o) ==
    /\ w \in 1..Len(workers)
    /\ workers[w].pc = "pgs_extracting"
    /\ LET me == workers[w]
           fs1 == AfterExtract(fs, TrackFile(me.exDir, me.base, Cur(w), Chars("sup")), o, w)
           e  == StatErr(fs1, TrackFile(outDir, me.base, Cur(w), Chars("sup")), o.exit)
       IN /\ fs' = fs1
          /\ workers' = [workers EXCEPT ![w].err = e, ![w].output = me.i,
                                        ![w].statDir = outDir,
                                        ![w].pc = IF e = "nil" THEN "pgs_prep" ELSE "terminal"]
    /\ UNCHANGED <<mkvPath, outDir, trackItems, heap, uiQueue, progress, result, clicks, tasks, cli, probe>>

\* the final SRT path of the task, as the conversion code computes it
FinalPath(w) == TrackFile(workers[w].convDir, workers[w].base, Cur(w), Chars("srt"))

\* PGS: conversion widgets and the ticker of the elapsed time, language,
\* absInputPath/absOutputPath, script check. A missing script ends the goroutine
\* ("return"). Nothing stops the ticker, here or later.
PgsPrep(w, scriptFound) ==
    /\ w \in 1..Len(workers)
    /\ workers[w].pc = "pgs_prep"
    /\ Len(uiQueue) < MaxQueue
    /\ uiQueue' = Append(uiQueue, Closure("hide", w, CurRef(w)))
    /\ workers' = [workers EXCEPT ![w].convDir = outDir,
                                  ![w].ticking = @ \cup {workers[w].i},
                                  ![w].missing = ~scriptFound,
                                  ![w].pc = IF scriptFound THEN "pgs_tmp" ELSE "returned"]
    /\ UNCHANGED <<mkvPath, outDir, trackItems, heap, fs, progress, result, clicks, tasks, cli, probe>>

\* PGS: os.CreateTemp (failure ends the goroutine), the conversion log file
\* beside the output, cmd.Start of "sh -c deno ... > tmp"
PgsTmp(w, tmpOk, logOk, startOk) ==
    /\ w \in 1..Len(workers)
    /\ workers[w].pc = "pgs_tmp"
    /\ IF ~tmpOk
       THEN /\ workers' = [workers EXCEPT ![w].pc = "returned"]
            /\ UNCHANGED fs
       ELSE /\ fs' = IF logOk
                     THEN WriteFile(fs, TrackFile(outDir, workers[w].base, Cur(w),
                                                  Chars("conversion.log")),
                                    Content("log", w))
                     ELSE fs
            /\ workers' = [workers EXCEPT ![w].tmp = "empty",
                                          ![w].logDir = outDir,
                                          ![w].log = IF logOk THEN "created" ELSE "failed",
                                          ![w].err = IF startOk THEN @ ELSE "start",
                                          ![w].pc = IF startOk THEN "pgs_running" ELSE "pgs_post"]
    /\ UNCHANGED <<mkvPath, outDir, trackItems, heap, uiQueue, progress, result, clicks, tasks, cli, probe>>

\* the PGS converter, running: its standard output is redirected to the temporary file
PgsConverterWrite(w) ==
    /\ w \in 1..Len(workers)
    /\ workers[w].pc = "pgs_running"
    /\ workers[w].tmp \in {"empty", "partial"}
    /\ workers' = [workers EXCEPT ![w].tmp = IF @ = "empty" THEN "partial" ELSE "full"]
    /\ UNCHANGED <<mkvPath, outDir, trackItems, heap, uiQueue, fs, progress, result, clicks, tasks, cli, probe>>

\* PGS: cmd.Wait returns; the temporary file is copied to the final path whatever
\* the exit status, and removed after a successful copy
PgsExit(w, exitOk, copyOk) ==
    /\ w \in 1..Len(workers)
    /\ workers[w].pc = "pgs_running"
    /\ LET me == workers[w]
           exitErr == IF exitOk THEN "nil" ELSE "exit"
       IN /\ fs' = IF copyOk THEN WriteFile(fs, FinalPath(w), Content(me.tmp, w)) ELSE fs
          /\ workers' = [workers EXCEPT
                 ![w].tmp = IF copyOk THEN "none" ELSE @,
                 ![w].promoted = IF copyOk THEN me.tmp ELSE "none",
                 ![w].output = me.i,
                 ![w].err = IF exitErr = "nil" /\ ~copyOk THEN "copy" ELSE exitErr,
                 ![w].pc = "pgs_post"]
    /\ UNCHANGED <<mkvPath, outDir, trackItems, heap, uiQueue, progress, result, clicks, tasks, cli, probe>>

\* PGS: the results are shown, the overall bar comes back, the SRT file is looked for
PgsPost(w) ==
    /\ w \in 1..Len(workers)
    /\ workers[w].pc = "pgs_post"
    /\ Len(uiQueue) < MaxQueue
    /\ uiQueue' = Append(uiQueue, Closure("show", w, CurRef(w)))
    /\ workers' = [workers EXCEPT ![w].err = IF Exists(fs, FinalPath(w)) THEN @ ELSE "notcreated",
                                  ![w].pc = "terminal"]
    /\ UNCHANGED <<mkvPath, outDir, trackItems, heap, fs, progress, result, clicks, tasks, cli, probe>>

AssExtractStart(w) == ExtractStart(w, "ass")

\* ASS/SSA: mkvextract returns, the .ass file is checked
AssExtractDone(w, o) ==
    /\ w \in 1..Len(workers)
    /\ workers[w].pc = "ass_extracting"
    /\ LET me == workers[w]
           fs1 == AfterExtract(fs, TrackFile(me.exDir, me.base, Cur(w), Chars("ass")), o, w)
           e  == StatErr(fs1, TrackFile(outDir, me.base, Cur(w), Chars("ass")), o.exit)
       IN /\ fs' = fs1
          /\ workers' = [workers EXCEPT ![w].err = e, ![w].output = me.i,
                                        ![w].statDir = outDir,
                                        ![w].pc = IF e = "nil" THEN "ass_prep" ELSE "terminal"]
    /\ UNCHANGED <<mkvPath, outDir, trackItems, heap, uiQueue, progress, result, clicks, tasks, cli, probe>>

\* ASS/SSA: conversion widgets and the ticker of the elapsed time,
\* absInputPath/absOutputPath, the ffmpeg command
AssPrep(w) ==
    /\ w \in 1..Len(workers)
    /\ workers[w].pc = "ass_prep"
    /\ Len(uiQueue) < MaxQueue
    /\ uiQueue' = Append(uiQueue, Closure("hide", w, CurRef(w)))
    /\ workers' = [workers EXCEPT ![w].convDir = outDir,
                                  ![w].ticking = @ \cup {workers[w].i},
                                  ![w].pc = "ass_running"]
    /\ UNCHANGED <<mkvPath, outDir, trackItems, heap, fs, progress, result, clicks, tasks, cli, probe>>

\* ffmpeg -i in -f srt out, running: it writes the destination itself. Started
\* without -y and without a terminal, it leaves an existing destination alone.
AssConverterWrite(w) ==
    /\ w \in 1..Len(workers)
    /\ workers[w].pc = "ass_running"
    /\ \/ workers[w].wrote = "none" /\ ~Exists(fs, FinalPath(w))
       \/ workers[w].wrote = "partial"
    /\ LET c == IF workers[w].wrote = "none" THEN "partial" ELSE "full"
       IN /\ fs' = WriteFile(fs, FinalPath(w), Content(c, w))
          /\ workers' = [workers EXCEPT ![w].wrote = c]
    /\ UNCHANGED <<mkvPath, outDir, trackItems, heap, uiQueue, progress, result, clicks, tasks, cli, probe>>

\* ASS/SSA: cmd.CombinedOutput returns; err is ffmpeg's exit status and nothing
\* else; ticker.Stop()
AssExit(w, exitOk) ==
    /\ w \in 1..Len(workers)
    /\ workers[w].pc = "ass_running"
    /\ exitOk => ~(workers[w].wrote = "none" /\ Exists(fs, FinalPath(w)))
    /\ workers' = [workers EXCEPT ![w].err = IF exitOk THEN "nil" ELSE "exit",
                                  ![w].output = workers[w].i,
                                  ![w].ticking = @ \ {workers[w].i},
                                  ![w].pc = "terminal"]
    /\ UNCHANGED <<mkvPath, outDir, trackItems, heap, uiQueue, fs, progress, result, clicks, tasks, cli, probe>>

VobExtractStart(w) == ExtractStart(w, "vob")

\* VobSub: mkvextract returns, the .idx file is checked; the conversion goes on
\* whenever the file is there and not empty
VobExtractDone(w, o) ==
    /\ w \in 1..Len(workers)
    /\ workers[w].pc = "vob_extracting"
    /\ LET me == workers[w]
           fs1 == AfterExtract(fs, TrackFile(me.exDir, me.base, Cur(w), Chars("idx")), o, w)
           q  == TrackFile(outDir, me.base, Cur(w), Chars("idx"))
       IN /\ fs' = fs1
          /\ workers' = [workers EXCEPT ![w].err = StatErr(fs1, q, o.exit),
                                        ![w].output = me.i,
                                        ![w].statDir = outDir,
                                        ![w].pc = IF NonEmpty(fs1, q) THEN "vob_prep"
                                                  ELSE "terminal"]
    /\ UNCHANGED <<mkvPath, outDir, trackItems, heap, uiQueue, progress, result, clicks, tasks, cli, probe>>

\* VobSub: basePath is idxFilePath without its extension, the output basePath.srt
VobFinalPath(w) == TrackFile(workers[w].statDir, workers[w].base, Cur(w), Chars("srt"))

\* VobSub: conversion widgets and the ticker of the elapsed time, language, the
\* check for /usr/local/bin/vobsub2srt (ticker.Stop() is in the other branch).
\* The error of a missing binary is assigned to the err declared by the if statement,
\* not to the worker's err. With the binary there, an existing SRT file is removed.
VobPrep(w, binaryFound) ==
    /\ w \in 1..Len(workers)
    /\ workers[w].pc = "vob_prep"
    /\ Len(uiQueue) < MaxQueue
    /\ uiQueue' = Append(uiQueue, Closure("hide", w, CurRef(w)))
    /\ fs' = IF binaryFound THEN RemoveFile(fs, VobFinalPath(w)) ELSE fs
    /\ workers' = [workers EXCEPT ![w].convDir = workers[w].statDir,
                                  ![w].ticking = @ \cup {workers[w].i},
                                  ![w].missing = ~binaryFound,
                                  ![w].pc = IF binaryFound THEN "vob_running" ELSE "terminal"]
    /\ UNCHANGED <<mkvPath, outDir, trackItems, heap, progress, result, clicks, tasks, cli, probe>>

\* vobsub2srt --lang <code> basePath, running: it writes basePath.srt itself
VobConverterWrite(w) ==
    /\ w \in 1..Len(workers)
    /\ workers[w].pc = "vob_running"
    /\ workers[w].wrote \in {"none", "partial"}
    /\ LET c == IF workers[w].wrote = "none" THEN "partial" ELSE "full"
       IN /\ fs' = WriteFile(fs, VobFinalPath(w), Content(c, w))
          /\ workers' = [workers EXCEPT ![w].wrote = c]
    /\ UNCHANGED <<mkvPath, outDir, trackItems, heap, uiQueue, progress, result, clicks, tasks, cli, probe>>

\* VobSub: cmd.CombinedOutput returns; err is vobsub2srt's exit status;
\* ticker.Stop()
VobExit(w, exitOk) ==
    /\ w \in 1..Len(workers)
    /\ workers[w].pc = "vob_running"
    /\ workers' = [workers EXCEPT ![w].err = IF exitOk THEN "nil" ELSE "exit",
                                  ![w].output = workers[w].i,
                                  ![w].ticking = @ \ {workers[w].i},
                                  ![w].pc = "terminal"]
    /\ UNCHANGED <<mkvPath, outDir, trackItems, heap, uiQueue, fs, progress, result, clicks, tasks, cli, probe>>

\* extraction without conversion: the extension, absOutFile, the mkvextract command
PassStart(w) == ExtractStart(w, "pass")

\* extraction without conversion: cmd.CombinedOutput returns; err is mkvextract's
\* exit status and the file is not looked at
PassDone(w, o) ==
    /\ w \in 1..Len(workers)
    /\ workers[w].pc = "pass_extracting"
    /\ LET me == workers[w]
       IN /\ fs' = AfterExtract(fs, TrackFile(me.exDir, me.base, Cur(w), PassExt(Cur(w).Codec)),
                                o, w)
          /\ workers' = [workers EXCEPT ![w].err = o.exit, ![w].output = me.i,
                                        ![w].pc = "terminal"]
    /\ UNCHANGED <<mkvPath, outDir, trackItems, heap, uiQueue, progress, result, clicks, tasks, cli, probe>>

\* A ticker that has not been stopped fires: its goroutine hands fyne.Do an
\* update of the elapsed-time (and, for PGS, remaining-time) labels of task i.
Tick(w, i) ==
    /\ w \in 1..Len(workers)
    /\ i \in workers[w].ticking
    /\ Len(uiQueue) < MaxQueue
    /\ uiQueue' = Append(uiQueue, Closure("tick", w, workers[w].selected[i]))
    /\ UNCHANGED <<mkvPath, outDir, trackItems, heap, workers, fs, progress, result, clicks, tasks, cli, probe>>

\* an end of the loop body that sets the track's state and the progress value
\* from the worker goroutine itself, without fyne.Do
TerminalDirect(w) ==
    /\ w \in 1..Len(workers)
    /\ workers[w].pc = "terminal"
    /\ heap' = [heap EXCEPT ![CurRef(w)].State = IF workers[w].err # "nil" THEN "Error"
                                                  ELSE "Done"]
    /\ progress' = IF workers[w].err # "nil" THEN progress
                   ELSE [progress EXCEPT !.value = workers[w].tracksDone + 1]
    /\ workers' = [workers EXCEPT ![w].tracksDone = @ + 1, ![w].i = @ + 1,
                                  ![w].pc = "loop"]
    /\ UNCHANGED <<mkvPath, outDir, trackItems, uiQueue, fs, result, clicks, tasks, cli, probe>>

\* the loop body with a counter of the tracks that succeeded only
TerminalCountsSuccesses(w) ==
    /\ w \in 1..Len(workers)
    /\ workers[w].pc = "terminal"
    /\ Len(uiQueue) < MaxQueue
    /\ uiQueue' = Append(uiQueue, Closure("terminal", w, CurRef(w)))
    /\ workers' = [workers EXCEPT ![w].tracksDone = IF workers[w].err = "nil" THEN @ + 1 ELSE @,
                                  ![w].i = @ + 1,
                                  ![w].base = "", ![w].src = "", ![w].exDir = "",
                                  ![w].statDir = "", ![w].convDir = "", ![w].logDir = "",
                                  ![w].tmp = "none", ![w].wrote = "none",
                                  ![w].branch = "", ![w].missing = FALSE,
                                  ![w].promoted = "none", ![w].log = "none",
                                  ![w].pc = "loop"]
    /\ UNCHANGED <<mkvPath, outDir, trackItems, heap, fs, progress, result, clicks, tasks, cli, probe>>

\* end of the loop body: the terminal update is queued, tracksDone++, next track
Terminal(w) ==
    /\ w \in 1..Len(workers)
    /\ workers[w].pc = "terminal"
    /\ Len(uiQueue) < MaxQueue
    /\ uiQueue' = Append(uiQueue, Closure("terminal", w, CurRef(w)))
    /\ workers' = [workers EXCEPT ![w].tracksDone = @ + 1, ![w].i = @ + 1,
                                  ![w].base = "", ![w].src = "", ![w].exDir = "",
                                  ![w].statDir = "", ![w].convDir = "", ![w].logDir = "",
                                  ![w].tmp = "none", ![w].wrote = "none",
                                  ![w].branch = "", ![w].missing = FALSE,
                                  ![w].promoted = "none", ![w].log = "none",
                                  ![w].pc = "loop"]
    /\ UNCHANGED <<mkvPath, outDir, trackItems, heap, fs, progress, result, clicks, tasks, cli, probe>>

\* ----------------------------------------------------- presentation layer

\* What the result text says of one failure: the track it is about, the error,
\* and whether the text names that track.
Failure(t, err, named) == [t |-> t, err |-> err, named |-> named]

\* The main goroutine runs the oldest closure handed to fyne.Do. The closure reads
\* the worker's err and tracksDone when it runs. result.SetText(result.Text + ...)
\* adds to the text; result.SetText of a fresh string drops what was there. The
\* progress lines the branches add in closures of their own are not followed:
\* the setup, terminal and final updates drop them with the rest of the text.
RunUI ==
    /\ uiQueue # << >>
    /\ LET c == Head(uiQueue)
           me == workers[c.w]
       IN /\ uiQueue' = Tail(uiQueue)
          /\ CASE c.kind = "setup" ->
                    /\ progress' = [progress EXCEPT !.max = Len(me.selected), !.value = 0]
                    /\ result' = {}
                    /\ UNCHANGED heap
               [] c.kind = "hide" ->
                    /\ progress' = [progress EXCEPT !.visible = FALSE]
                    /\ UNCHANGED <<heap, result>>
               [] c.kind = "show" ->
                    /\ progress' = [progress EXCEPT !.visible = TRUE]
                    /\ result' = IF me.err # "nil"
                                 THEN result \cup {Failure(c.t, me.err, TRUE)}
                                 ELSE result
                    /\ UNCHANGED heap
               [] c.kind = "tick" ->
                    /\ UNCHANGED <<heap, progress, result>>
               [] c.kind = "terminal" ->
                    /\ heap' = [heap EXCEPT ![c.t].State = IF me.err # "nil" THEN "Error"
                                                           ELSE "Done"]
                    /\ progress' = IF me.err # "nil" THEN progress
                                   ELSE [progress EXCEPT !.value = me.tracksDone + 1]
                    /\ result' = IF me.err # "nil" THEN {Failure(c.t, me.err, FALSE)}
                                 ELSE result
               [] c.kind = "final" ->
                    /\ progress' = IF me.tracksDone = Len(me.selected)
                                   THEN [progress EXCEPT !.value = progress.max]
                                   ELSE progress
                    /\ result' = {}
                    /\ UNCHANGED heap
    /\ UNCHANGED <<mkvPath, outDir, trackItems, workers, fs, clicks, tasks, cli, probe>>

\* ------------------------------------------- Load Tracks on any report

\* the codec strings a report can carry
Codecs == {"SubRip/SRT", "HDMV PGS", "hdmv_pgs_subtitle", "hdmv pgs", "VobSub", "VOBSUB",
           "SubStationAlpha", "ass", "Timed Text", ""}

\* the container types a report can carry
ContainerTypes == {"Matroska", "WebM"}

\* The track objects mkvmerge -J can list with id i (its number is i + 1): subtitle
\* tracks of every codec, with or without a language property, a video track, and
\* objects of another shape (no properties, no id, no codec). lang "" stands for
\* a missing language property.
TrackObjects(i) ==
    [type : {"subtitles"}, props : {TRUE}, idOk : {TRUE}, codecOk : {TRUE},
     id : {i}, number : {i + 1}, lang : {"eng", ""}, codec : Codecs]
    \cup
    { [type |-> "video", props |-> TRUE, idOk |-> TRUE, codecOk |-> TRUE,
       id |-> i, number |-> i + 1, lang |-> "eng", codec |-> "Timed Text"],
      [type |-> "subtitles", props |-> FALSE, idOk |-> TRUE, codecOk |-> TRUE,
       id |-> i, number |-> i + 1, lang |-> "", codec |-> "SubRip/SRT"],
      [type |-> "subtitles", props |-> TRUE, idOk |-> FALSE, codecOk |-> TRUE,
       id |-> i, number |-> i + 1, lang |-> "eng", codec |-> "SubRip/SRT"],
      [type |-> "subtitles", props |-> TRUE, idOk |-> TRUE, codecOk |-> FALSE,
       id |-> i, number |-> i + 1, lang |-> "eng", codec |-> ""] }

\* the "tracks" arrays of n objects, ids counted from 0
TrackArrays(n) ==
    {r \in [1..n -> UNION {TrackObjects(i) : i \in 0..(n - 1)}] :
        \A k \in 1..n : r[k] \in TrackObjects(k - 1)}

\* a report handed to Load Tracks, nothing done with it yet
ProbeStarts ==
    {[pc |-> "report", container |-> c, tracks |-> r, items |-> << >>, names |-> << >>] :
        c \in ContainerTypes, r \in UNION {TrackArrays(n) : n \in 1..MaxTracks}}

\* the loop of Load Tracks goes on with the next object without listing this one
Skipped(m) == m.type # "subtitles" \/ ~m.props

\* trackMap["id"].(float64) and trackMap["codec"].(string) are unchecked assertions
Panics(m) == ~Skipped(m) /\ (~m.idOk \/ ~m.codecOk)

\* the body of loadTracksBtn after mkvmerge has run and its output has been decoded
ProbeLoad ==
    /\ probe.pc = "report"
    /\ IF \E k \in 1..Len(probe.tracks) : Panics(probe.tracks[k])
       THEN probe' = [probe EXCEPT !.pc = "crashed"]
       ELSE LET listed == SelectSeq(probe.tracks, LAMBDA m : ~Skipped(m))
            IN probe' = [probe EXCEPT !.pc = "listed",
                            !.items = [k \in 1..Len(listed) |-> NewTrackItem(listed[k])]]
    /\ UNCHANGED <<gui, cli>>

\* the user ticking or clearing "Convert to SRT" of a listed track
ProbeToggleOCR(k) ==
    /\ probe.pc = "listed"
    /\ k \in 1..Len(probe.items)
    /\ probe.items[k].ConvertOCR # "nil"
    /\ probe' = [probe EXCEPT !.items[k].ConvertOCR =
                    IF @ = "checked" THEN "unchecked" ELSE "checked"]
    /\ UNCHANGED <<gui, cli>>

\* extension of the file mkvextract is told to write for a track
ExtractExt(t) ==
    CASE Branch(t) = "pgs" -> Chars("sup")
      [] Branch(t) = "ass" -> Chars("ass")
      [] Branch(t) = "vob" -> Chars("idx")
      [] OTHER -> PassExt(t.Codec)

\* extension of outFile, the file the task ends with
OutExt(t) == IF Branch(t) = "pass" THEN PassExt(t.Codec) ELSE Chars("srt")

\* what the loop body of the worker derives for one track of container "a": the
\* branch, the extracted file and outFile
TaskNames(t) ==
    [branch |-> Branch(t),
     ext    |-> OutExt(t),
     inter  |-> TrackFileName(Chars("a"), t, ExtractExt(t)),
     final  |-> TrackFileName(Chars("a"), t, OutExt(t))]

\* the worker's loop over the listed tracks, as far as branches and names go
ProbeDispatch ==
    /\ probe.pc = "listed"
    /\ probe' = [probe EXCEPT !.pc = "named",
                    !.names = [k \in 1..Len(probe.items) |-> TaskNames(probe.items[k])]]
    /\ UNCHANGED <<gui, cli>>

\* ------------------------------------------------- converter language codes

\* langCodeMap of the PGS branch: 2-letter code to the 3-letter code of Tesseract
LangCodeMap2to3 ==
    { <<"en", "eng">>, <<"fr", "fra">>, <<"de", "deu">>, <<"it", "ita">>, <<"es", "spa">>,
      <<"pt", "por">>, <<"nl", "nld">>, <<"sv", "swe">>, <<"no", "nor">>, <<"da", "dan">>,
      <<"fi", "fin">>, <<"ja", "jpn">>, <<"ko", "kor">>, <<"zh", "chi">>, <<"ru", "rus">>,
      <<"pl", "pol">>, <<"cs", "ces">>, <<"hu", "hun">>, <<"el", "ell">>, <<"tr", "tur">>,
      <<"ar", "ara">>, <<"he", "heb">>, <<"th", "tha">> }

\* the 3-letter codes of ISO 639-2/B alone, with their 2-letter codes
LangCodeMapBibliographic ==
    { <<"eng", "en">>, <<"fre", "fr">>, <<"ger", "de">>, <<"dut", "nl">>, <<"chi", "zh">>,
      <<"cze", "cs">>, <<"gre", "el">> }

\* langCodeMap of the VobSub branch: 3-letter code to the 2-letter code of vobsub2srt
LangCodeMap3to2 ==
    { <<"eng", "en">>, <<"fre", "fr">>, <<"fra", "fr">>, <<"ger", "de">>, <<"deu", "de">>,
      <<"ita", "it">>, <<"spa", "es">>, <<"por", "pt">>, <<"dut", "nl">>, <<"nld", "nl">>,
      <<"swe", "sv">>, <<"nor", "no">>, <<"dan", "da">>, <<"fin", "fi">>, <<"jpn", "ja">>,
      <<"kor", "ko">>, <<"chi", "zh">>, <<"zho", "zh">>, <<"rus", "ru">>, <<"pol", "pl">>,
      <<"cze", "cs">>, <<"ces", "cs">>, <<"hun", "hu">>, <<"gre", "el">>, <<"ell", "el">>,
      <<"tur", "tr">>, <<"ara", "ar">>, <<"heb", "he">>, <<"tha", "th">> }

\* a map lookup with a character sequence as the key
HasKey(map, cs) == \E p \in map : Chars(p[1]) = cs

Lookup(map, cs) == Chars((CHOOSE p \in map : Chars(p[1]) = cs)[2])

\* langOptions of Load Tracks for a track of language lang
langOptions(lang) ==
    << Chars("Auto (") \o Chars(lang) \o <<")">>,
       Chars("English (en)"),
       Chars("French (fr)"),
       Chars("German (de)"),
       Chars("Spanish (es)"),
       Chars("Italian (it)"),
       Chars("Portuguese (pt)"),
       Chars("Dutch (nl)"),
       Chars("Russian (ru)"),
       Chars("Japanese (ja)"),
       Chars("Chinese (zh)"),
       Chars("Korean (ko)"),
       Chars("Czech (cs)"),
       Chars("Polish (pl)"),
       Chars("Swedish (sv)"),
       Chars("Danish (da)"),
       Chars("Finnish (fi)"),
       Chars("Norwegian (no)"),
       Chars("Hungarian (hu)"),
       Chars("Greek (el)"),
       Chars("Turkish (tr)"),
       Chars("Arabic (ar)"),
       Chars("Hebrew (he)"),
       Chars("Thai (th)") >>

\* strings.HasPrefix
HasPrefix(cs, pre) == Len(pre) <= Len(cs) /\ SubSeq(cs, 1, Len(pre)) = pre

\* the selection names a code between its last "(" and its last ")"
HasCode(selection) ==
    /\ LastIndex(selection, "(") # 0
    /\ LastIndex(selection, ")") # 0
    /\ LastIndex(selection, ")") > LastIndex(selection, "(")

\* selection[start+1 : end]
SelectedCode(selection) ==
    SubSeq(selection, LastIndex(selection, "(") + 1, LastIndex(selection, ")") - 1)

\* the user has picked a language of the dropdown other than "Auto (...)"
UserPicked(selection) == selection # << >> /\ ~HasPrefix(selection, Chars("Auto"))

\* a lookup that falls back to English for a key without an entry
MapOrEnglish(map, key, code) == IF HasKey(map, key) THEN Lookup(map, key) ELSE Chars("eng")

\* "if v, exists := langCodeMap[key]; exists { langCode = v }": the value of the
\* key, or the code as it was for a key without an entry
MapOrKeep(map, key, code) == IF HasKey(map, key) THEN Lookup(map, key) ELSE code

\* PGS: langCode, the name of the .traineddata file handed to the converter
PgsLanguage(lang, selection) ==
    LET langCode == IF lang # "" THEN Chars(lang) ELSE Chars("eng")
    IN IF UserPicked(selection) /\ HasCode(selection)
       THEN MapOrKeep(LangCodeMap2to3, SelectedCode(selection), SelectedCode(selection))
       ELSE langCode

\* VobSub: langCode, the --lang argument of vobsub2srt
VobLanguage(lang, selection) ==
    LET langCode == IF lang # "" THEN Chars(lang) ELSE Chars("eng")
    IN IF UserPicked(selection)
       THEN IF HasCode(selection) THEN SelectedCode(selection) ELSE langCode
       ELSE MapOrKeep(LangCodeMap3to2, ToLower(langCode), langCode)

\* the languages a listed track can carry: mapped ones and ones without an entry
TrackLangs == {"eng", "ger", "deu", "und", "mul"}

\* a track of a conversion with OCR, its language and the option chosen in its
\* dropdown, before the worker derives the converter's language
LangStarts ==
    {[pc |-> "language", branch |-> b, lang |-> l, selected |-> langOptions(l)[k],
      code |-> << >>] :
        b \in {"pgs", "vob"}, l \in TrackLangs, k \in 1..Len(langOptions("eng"))}

\* the worker derives langCode for the converter of the track
ProbeLanguage ==
    /\ probe.pc = "language"
    /\ probe' = [probe EXCEPT !.pc = "spoken",
                    !.code = IF probe.branch = "pgs"
                             THEN PgsLanguage(probe.lang, probe.selected)
                             ELSE VobLanguage(probe.lang, probe.selected)]
    /\ UNCHANGED <<gui, cli>>

\* ------------------------------------------------ PGS conversion progress

\* the rational number n/d, d > 0, standing for a float64 of the code
Ratio(n, d) == [num |-> n, den |-> d]

\* progressData right after its declaration, at time 0 of the conversion, with
\* the label texts of the conversion widgets
MeterStart ==
    [pc |-> "converting", currentFrame |-> 0, totalFrames |-> 0, frameRate |-> Ratio(0, 1),
     lastUpdate |-> 0, now |-> 0, pipe |-> 0, written |-> 0, lines |-> 0, matched |-> 0,
     captured |-> 0, remaining |-> "calculating...", err |-> "nil"]

\* The frame-rate rule of the standard-output reader for a line "Processing frame
\* cur/..." read at time now: nothing without an earlier frame count or without
\* an advance of frames and of time; the new sample as it is the first time;
\* afterwards frameRate*0.7 + newFrameRate*0.3.
Smoothed(pd, cur, now) ==
    LET timeDiff == now - pd.lastUpdate
        frameDiff == cur - pd.currentFrame
    IN IF pd.currentFrame > 0 /\ timeDiff > 0 /\ frameDiff > 0
       THEN IF pd.frameRate.num > 0
            THEN Ratio(7 * pd.frameRate.num * timeDiff + 3 * frameDiff * pd.frameRate.den,
                       10 * pd.frameRate.den * timeDiff)
            ELSE Ratio(frameDiff, timeDiff)
       ELSE pd.frameRate

\* a display that shows an estimate whatever progressData holds
AlwaysEstimate(pd) == "estimate"

\* the ticker's newRemainingText
Remaining(pd) ==
    IF pd.totalFrames > 0 /\ pd.currentFrame > 0 /\ pd.frameRate.num > 0
    THEN "estimate"
    ELSE "calculating..."

\* The converter writes a line to its standard error. The command is
\* sh -c "deno run ... > tmp": the converter's standard output goes to the
\* temporary file, so the pipe of the standard output carries no line and every
\* line the program sees is one of these. pipe counts the lines written and not
\* yet read; what a line says is drawn when the reader takes it.
MeterConverterWrites ==
    /\ probe.pc = "converting"
    /\ probe.written < MaxLines
    /\ probe' = [probe EXCEPT !.written = @ + 1, !.pipe = @ + 1]
    /\ UNCHANGED <<gui, cli>>

\* The reader of the standard error takes the next line of the pipe, dt units of
\* time after the line before, and writes it to the log file and to outputBuffer.
\* On a line "Processing frame cur/total" it sets totalFrames (once) and
\* currentFrame, and neither frameRate nor lastUpdate.
MeterStderrLine(frame, cur, total, dt) ==
    /\ probe.pc = "converting"
    /\ probe.pipe > 0
    /\ probe' = IF frame
                THEN [probe EXCEPT !.pipe = @ - 1, !.now = @ + dt,
                                   !.lines = @ + 1, !.matched = @ + 1,
                                   !.totalFrames = IF @ = 0 THEN total ELSE @,
                                   !.currentFrame = cur]
                ELSE [probe EXCEPT !.pipe = @ - 1, !.now = @ + dt, !.lines = @ + 1]
    /\ UNCHANGED <<gui, cli>>

\* the ticker fires and the labels are updated
MeterTick ==
    /\ probe.pc = "converting"
    /\ probe' = [probe EXCEPT !.remaining = Remaining(probe)]
    /\ UNCHANGED <<gui, cli>>

\* The converter has exited and cmd.Wait returns: Wait closes the program's ends
\* of the pipes, whatever the readers have taken from them so far; output is
\* outputBuffer as it is at that moment; the temporary file is copied to the
\* final path.
MeterExit(exitOk, copyOk) ==
    /\ probe.pc = "converting"
    /\ probe' = [probe EXCEPT !.pc = "converted",
                    !.captured = probe.lines,
                    !.err = IF ~exitOk THEN "exit" ELSE IF ~copyOk THEN "copy" ELSE "nil"]
    /\ UNCHANGED <<gui, cli>>

\* ------------------------------------------------------ command line (main.go)

ErrCodeSuccess == 0
ErrCodeFailure == 1
\* exit status of a Go program that ends in a panic
ErrCodePanic == 2

\* var subtitleExtensionByCodec: a codec id that is no key gives the empty string
subtitleExtensionByCodec(codecId) ==
    CASE codecId = "S_TEXT/UTF8" -> Chars("srt")
      [] codecId = "S_TEXT/ASS"  -> Chars("ass")
      [] codecId = "S_HDMV/PGS"  -> Chars("sup")
      [] OTHER -> << >>

\* func isMKVFile, for a name of four characters or more
isMKVFile(name) == ToLower(SubSeq(name, Len(name) - 3, Len(name))) = Chars(".mkv")

\* fmt.Sprintf("%03s", s): s padded on the left with zeros to three characters
PadZero3(cs) == [k \in 1..(3 - Len(cs)) |-> "0"] \o cs

\* func buildSubtitlesFileName
buildSubtitlesFileName(inputFileName, track) ==
    LET baseName == TrimSuffix(PathBase(inputFileName), PathExt(PathBase(inputFileName)))
        n1 == baseName \o <<".">> \o Chars(track.lang) \o <<".">> \o PadZero3(Itoa(track.number))
        n2 == IF track.name # "" THEN n1 \o <<".">> \o Chars(track.name) ELSE n1
        n3 == IF track.forced THEN n2 \o <<".">> \o Chars(".forced") ELSE n2
        n4 == n3 \o <<".">> \o subtitleExtensionByCodec(track.codecId)
    IN PathJoin(PathDir(inputFileName), n4)

\* the container check of the Extract handler
IsMatroska(type) == ToLower(TrimSpace(Chars(type))) = Chars("matroska")

\* what the -x flag can name: a path, and what os.Stat finds there
CliArgs ==
    {[kind |-> k, path |-> p] :
        k \in {"file", "dir", "missing", "denied"},
        p \in {"d/a.mkv", "a.MKV", "d/n.txt", "d"}}

\* the track objects of mkvmerge's JSON as the MKVTrack struct decodes them; a
\* missing language property decodes to the empty string
CliTrackObjects(i) ==
    [type : {"subtitles"}, id : {i}, number : {i + 1}, lang : {"eng", "und", ""},
     name : {"", "x"}, forced : BOOLEAN, codecId : {"S_TEXT/UTF8", "S_VOBSUB"}]
    \cup
    { [type |-> "video", id |-> i, number |-> i + 1, lang |-> "eng",
       name |-> "", forced |-> FALSE, codecId |-> "V_MPEG4"] }

CliTrackArrays(n) ==
    {r \in [1..n -> UNION {CliTrackObjects(i) : i \in 0..(n - 1)}] :
        \A k \in 1..n : r[k] \in CliTrackObjects(k - 1)}

OneSrtTrack ==
    << [type |-> "subtitles", id |-> 0, number |-> 1, lang |-> "eng",
        name |-> "", forced |-> FALSE, codecId |-> "S_TEXT/UTF8"] >>

\* what running mkvmerge -J and decoding its output can give
MkvmergeOutcomes ==
    {[run |-> x, container |-> "Matroska", tracks |-> OneSrtTrack] : x \in {"fail", "badjson"}}
    \cup {[run |-> "ok", container |-> c, tracks |-> OneSrtTrack] : c \in {" MATROSKA ", "WebM"}}
    \cup {[run |-> "ok", container |-> "Matroska", tracks |-> r] :
            r \in UNION {CliTrackArrays(n) : n \in 1..MaxTracks}}

\* The process right after its start: every argument with one report, and the
\* file d/a.mkv with every report.
CliStarts ==
    {[pc |-> "start", arg |-> a, out |-> o, k |-> 1, files |-> << >>,
      ret |-> "none", exited |-> FALSE, code |-> ErrCodeSuccess] :
        a \in CliArgs, o \in MkvmergeOutcomes} \
    {c \in [pc : {"start"}, arg : CliArgs, out : MkvmergeOutcomes, k : {1}, files : {<< >>},
            ret : {"none"}, exited : {FALSE}, code : {ErrCodeSuccess}] :
        /\ c.arg # [kind |-> "file", path |-> "d/a.mkv"]
        /\ c.out # [run |-> "ok", container |-> "Matroska", tracks |-> OneSrtTrack]}

\* the Extract handler up to its loop: os.Stat, isMKVFile, mkvmerge -J,
\* json.Unmarshal, the container check
CliInspect ==
    /\ cli.pc = "start"
    /\ LET a == cli.arg
           p == Chars(a.path)
           fails == \/ a.kind = "missing"
                    \/ (a.kind = "file" /\ Len(p) >= 4 /\
                          \/ ~isMKVFile(p)
                          \/ cli.out.run # "ok"
                          \/ ~IsMatroska(cli.out.container))
       IN cli' =
            IF a.kind = "denied" \/ (a.kind = "file" /\ Len(p) < 4)
            THEN [cli EXCEPT !.pc = "exited", !.exited = TRUE, !.code = ErrCodePanic]
            ELSE IF a.kind = "dir" THEN [cli EXCEPT !.pc = "returned", !.ret = "nil"]
            ELSE IF fails THEN [cli EXCEPT !.pc = "returned", !.ret = "err"]
            ELSE [cli EXCEPT !.pc = "extract"]
    /\ UNCHANGED <<gui, probe>>

\* one round of the handler's loop: buildSubtitlesFileName and extractSubtitles
\* for a subtitle track, nothing for another track
CliExtract(toolOk) ==
    /\ cli.pc = "extract"
    /\ LET track == cli.out.tracks[cli.k]
           last == cli.k = Len(cli.out.tracks)
           name == buildSubtitlesFileName(Chars(cli.arg.path), track)
       IN cli' =
            IF track.type = "subtitles" /\ ~toolOk
            THEN [cli EXCEPT !.pc = "returned", !.ret = "err"]
            ELSE [cli EXCEPT !.files = IF track.type = "subtitles" THEN Append(@, name) ELSE @,
                             !.k = @ + 1,
                             !.pc = IF last THEN "returned" ELSE "extract",
                             !.ret = IF last THEN "nil" ELSE @]
    /\ UNCHANGED <<gui, probe>>

\* After the handler: with a nil result main reaches os.Exit(ErrCodeSuccess).
\* What gocmd.New does with a handler's error is its own: it ends the process
\* with a failure status, or hands the error to main, which logs it and returns.
CliExit(gocmdExits) ==
    /\ cli.pc = "returned"
    /\ cli' = [cli EXCEPT !.pc = "exited", !.exited = TRUE,
                          !.code = IF cli.ret = "err" /\ gocmdExits THEN ErrCodeFailure
                                   ELSE ErrCodeSuccess]
    /\ UNCHANGED <<gui, probe>>

\* ----------------------------------------------------------- specification

Next ==
    \/ \E p \in Picks : SelectFile(p)
    \/ \E p \in Picks : DropFile(p)
    \/ \E d \in Dirs : ChangeDir(d)
    \/ \E ok \in BOOLEAN : LoadTracks(ok)
    \/ \E k \in 1..Len(trackItems) : ToggleCheck(k)
    \/ \E k \in 1..Len(trackItems) : ToggleOCR(k)
    \/ StartExtraction
    \/ \E w \in 1..Len(workers) : WorkerSelect(w)
    \/ \E w \in 1..Len(workers) : WorkerNextTask(w)
    \/ \E w \in 1..Len(workers) : WorkerFinish(w)
    \/ \E w \in 1..Len(workers) : PgsExtractStart(w)
    \/ \E w \in 1..Len(workers), o \in ExtractOutcomes : PgsExtractDone(w, o)
    \/ \E w \in 1..Len(workers), found \in BOOLEAN : PgsPrep(w, found)
    \/ \E w \in 1..Len(workers), tmpOk, logOk, startOk \in BOOLEAN :
            PgsTmp(w, tmpOk, logOk, startOk)
    \/ \E w \in 1..Len(workers) : PgsConverterWrite(w)
    \/ \E w \in 1..Len(workers), exitOk, copyOk \in BOOLEAN : PgsExit(w, exitOk, copyOk)
    \/ \E w \in 1..Len(workers) : PgsPost(w)
    \/ \E w \in 1..Len(workers) : AssExtractStart(w)
    \/ \E w \in 1..Len(workers), o \in ExtractOutcomes : AssExtractDone(w, o)
    \/ \E w \in 1..Len(workers) : AssPrep(w)
    \/ \E w \in 1..Len(workers) : AssConverterWrite(w)
    \/ \E w \in 1..Len(workers), exitOk \in BOOLEAN : AssExit(w, exitOk)
    \/ \E w \in 1..Len(workers) : VobExtractStart(w)
    \/ \E w \in 1..Len(workers), o \in ExtractOutcomes : VobExtractDone(w, o)
    \/ \E w \in 1..Len(workers), found \in BOOLEAN : VobPrep(w, found)
    \/ \E w \in 1..Len(workers) : VobConverterWrite(w)
    \/ \E w \in 1..Len(workers), exitOk \in BOOLEAN : VobExit(w, exitOk)
    \/ \E w \in 1..Len(workers) : PassStart(w)
    \/ \E w \in 1..Len(workers), o \in ExtractOutcomes : PassDone(w, o)
    \/ \E w \in 1..Len(workers), i \in 1..MaxTracks : Tick(w, i)
    \/ \E w \in 1..Len(workers) : Terminal(w)
    \/ RunUI

Spec == Init /\ [][Next]_vars

\* ------------------------------------------------- Utilities tab, SRT file

\* A time of a timestamp as its four fields, to milliseconds and back as
\* adjustSRTTiming converts them.
ToMs(t) == t.h * 3600000 + t.m * 60000 + t.s * 1000 + t.ms

FromMs(n) ==
    [h |-> n \div 3600000, m |-> (n % 3600000) \div 60000,
     s |-> (n % 60000) \div 1000, ms |-> n % 1000]

\* times that are not clamped at zero
NoClamp(n) == n

\* if startTimeMs < 0 { startTimeMs = 0 }
Clamp(n) == IF n < 0 THEN 0 ELSE n

\* offsetMs := int(offsetSeconds * 1000), the offset given in tenths of a
\* millisecond: the conversion to int drops the fraction, towards zero
OffsetMs(offset) == IF offset >= 0 THEN offset \div 10 ELSE -((-offset) \div 10)

\* One line of the file: a line the regular expression matches, with the two
\* times and the text around the match, or another line, with its text, whether
\* the text is ASCII, and how many times iconv has re-encoded it.
TimeLine(start, end, around) == [kind |-> "time", start |-> start, end |-> end, around |-> around]

TextLine(s, ascii) == [kind |-> "text", s |-> s, ascii |-> ascii, passes |-> 0]

\* the replacement of the match in one line
adjustLine(line, offset) ==
    IF line.kind = "time"
    THEN [line EXCEPT !.start = FromMs(Clamp(ToMs(line.start) + OffsetMs(offset))),
                      !.end = FromMs(Clamp(ToMs(line.end) + OffsetMs(offset)))]
    ELSE line

\* strings.Split(content, "\n"), the replacement in every line, strings.Join
adjustSRTTiming(content, offset) ==
    [k \in 1..Len(content) |-> adjustLine(content[k], offset)]

\* iconv -f ISO-8859-1 -t UTF-8: every byte above 127 becomes two bytes, an ASCII
\* byte stays
Iconv(content) ==
    [k \in 1..Len(content) |->
        IF content[k].kind = "text" /\ ~content[k].ascii
        THEN [content[k] EXCEPT !.passes = @ + 1]
        ELSE content[k]]

TimeStamps ==
    {[h |-> 0, m |-> 0, s |-> 0, ms |-> 0], [h |-> 0, m |-> 0, s |-> 1, ms |-> 500],
     [h |-> 0, m |-> 0, s |-> 60, ms |-> 0], [h |-> 99, m |-> 59, s |-> 59, ms |-> 999]}

\* offsets typed in the dialog, in tenths of a millisecond: -2 s, 0, 1.5 ms, 1 s
Offsets == {-20000, 0, 15, 10000}

\* the SRT files: a cue of three lines
SrtFiles ==
    {<<TextLine("1", TRUE), TimeLine(st, en, ar), tx>> :
        st \in TimeStamps, en \in TimeStamps, ar \in {"", "X1:0"},
        tx \in {TextLine("Hello", TRUE), TextLine("caf<E9>", FALSE)}}

\* no file at a path, and a file with its content
NoFile == [exists |-> FALSE, content |-> << >>]

File(content) == [exists |-> TRUE, content |-> content]

\* the selected SRT file, the file next to it with the suffix .bak, the file's
\* content when it was selected, the operations run, and the last text of
\* utilitiesResult
SrtStarts ==
    {[pc |-> "srt", file |-> f, bak |-> NoFile, original |-> f, ops |-> 0,
      offset |-> 0, msg |-> "none"] : f \in {g \in SrtFiles : ToMs(g[2].start) <= ToMs(g[2].end)}}

\* copyFile(srtPath, srtPath + ".bak"): os.Open, os.Create (which empties an
\* existing file), io.Copy. copy is "ok", "open" (os.Open or os.Create fails) or
\* "copy" (io.Copy fails and leaves the emptied file).
copyFile(src, dst, copy) ==
    CASE copy = "ok" -> File(src)
      [] copy = "open" -> dst
      [] OTHER -> File(<< >>)

\* Fix SRT Encoding: backup, iconv to srtPath.tmp, rename over srtPath
SrtFixEncoding(copy, iconvOk, renameOk) ==
    /\ probe.pc = "srt"
    /\ probe.ops < MaxOps
    /\ probe' = [probe EXCEPT
                    !.ops = @ + 1,
                    !.bak = copyFile(probe.file, @, copy),
                    !.file = IF copy = "ok" /\ iconvOk /\ renameOk THEN Iconv(@) ELSE @,
                    !.msg = IF copy # "ok" THEN "Error creating backup"
                            ELSE IF ~iconvOk THEN "Error"
                            ELSE IF ~renameOk THEN "Error replacing file"
                            ELSE "SRT encoding fixed successfully"]
    /\ UNCHANGED <<gui, cli>>

\* Fix SRT Timing with a confirmed offset: backup, os.ReadFile, strconv.ParseFloat,
\* adjustSRTTiming, os.WriteFile
SrtFixTiming(offset, copy, readOk, parseOk, writeOk) ==
    /\ probe.pc = "srt"
    /\ probe.ops < MaxOps
    /\ probe' = [probe EXCEPT
                    !.ops = @ + 1,
                    !.offset = offset,
                    !.bak = copyFile(probe.file, @, copy),
                    !.file = IF copy = "ok" /\ readOk /\ parseOk /\ writeOk
                             THEN adjustSRTTiming(@, offset) ELSE @,
                    !.msg = IF copy # "ok" THEN "Error creating backup"
                            ELSE IF ~readOk THEN "Error reading SRT file"
                            ELSE IF ~parseOk THEN "Invalid offset format"
                            ELSE IF ~writeOk THEN "Error writing adjusted SRT file"
                            ELSE "SRT timing adjusted successfully"]
    /\ UNCHANGED <<gui, cli>>

\* One run of Load Tracks and of the naming on a report, or one run of the
\* command-line process on an argument and a report.
InspectInit ==
    /\ GuiInit
    /\ \/ cli = NotStarted /\ probe \in ProbeStarts
       \/ cli = NotStarted /\ probe \in LangStarts
       \/ cli = NotStarted /\ probe = MeterStart
       \/ cli = NotStarted /\ probe \in SrtStarts
       \/ cli \in CliStarts /\ probe = NotStarted

InspectNext ==
    \/ ProbeLoad
    \/ \E k \in 1..MaxTracks : ProbeToggleOCR(k)
    \/ ProbeDispatch
    \/ ProbeLanguage
    \/ MeterConverterWrites
    \/ \E frame \in BOOLEAN, cur, total \in 0..MaxFrame, dt \in 0..1 :
            MeterStderrLine(frame, cur, total, dt)
    \/ MeterTick
    \/ \E exitOk, copyOk \in BOOLEAN : MeterExit(exitOk, copyOk)
    \/ CliInspect
    \/ \E toolOk \in BOOLEAN : CliExtract(toolOk)
    \/ \E gocmdExits \in BOOLEAN : CliExit(gocmdExits)
    \/ \E copy \in {"ok", "open", "copy"}, iconvOk, renameOk \in BOOLEAN :
            SrtFixEncoding(copy, iconvOk, renameOk)
    \/ \E offset \in Offsets, copy \in {"ok", "open", "copy"}, readOk, parseOk, writeOk \in BOOLEAN :
            SrtFixTiming(offset, copy, readOk, parseOk, writeOk)

InspectSpec == InspectInit /\ [][InspectNext]_vars

\* ------------------------------------------------------------------ claims

\* the goroutine of worker w has ended
Ended(w) == workers[w].pc \in {"done", "returned", "exit"}

\* none of the closures worker w queued is still waiting
NoneQueued(w) == \A k \in 1..Len(uiQueue) : uiQueue[k].w # w

\* the main goroutine is running the terminal update at the head of the queue
RunsTerminal ==
    /\ uiQueue # << >>
    /\ Head(uiQueue).kind = "terminal"
    /\ uiQueue' = Tail(uiQueue)

\* the file mkvextract was told to write for the task worker w is at
ExtractedFile(w) ==
    TrackFile(workers[w].exDir, workers[w].base, Cur(w),
              CASE workers[w].branch = "pgs" -> Chars("sup")
                [] workers[w].branch = "ass" -> Chars("ass")
                [] workers[w].branch = "vob" -> Chars("idx")
                [] OTHER -> PassExt(Cur(w).Codec))

\* C1: once a batch worker has ended and every update it queued has run, every
\* track that was selected for the batch is Done or Error: no failure of one
\* track (a missing converter script, a temporary file that cannot be created)
\* keeps the later tracks from being attempted.
C1_EverySelectedTrackTerminal ==
    \A w \in 1..Len(workers) :
        (Ended(w) /\ NoneQueued(w)) =>
            \A k \in 1..Len(workers[w].selected) :
                heap[workers[w].selected[k]].State \in {"Done", "Error"}

\* C2: on every extraction path, a task whose outcome is success (err is nil when
\* the terminal update is queued) has its extracted file on disk with a size
\* above zero: mkvextract's exit status alone is not enough.
C2_SuccessOnlyWithArtifact ==
    \A w \in 1..Len(workers) :
        (workers[w].pc = "terminal" /\ workers[w].err = "nil") =>
            NonEmpty(fs, ExtractedFile(w))

\* C3: the terminal update of task N shows task N's own outcome: the track is
\* marked Error exactly when err was not nil at the end of task N, and on Done the
\* progress value is the completed count of task N plus one, whatever the worker
\* has done to err and tracksDone since.
C3_TerminalUpdateShowsOwnOutcome ==
    [][RunsTerminal =>
          /\ (heap'[Head(uiQueue).t].State = "Error") <=> (Head(uiQueue).ownErr # "nil")
          /\ Head(uiQueue).ownErr = "nil" =>
                 progress'.value = Head(uiQueue).ownDone + 1]_vars

\* C4: at any time at most one batch worker is running.
C4_AtMostOneWorker ==
    Cardinality({w \in 1..Len(workers) : ~Ended(w)}) <= 1

\* C5: a track's State only moves from Pending to Done or Error, and a State of
\* Done or Error is never changed by any later step.
C5_StateMonotonic ==
    [][\A r \in 1..Len(heap) :
          /\ heap'[r].State \in {"Pending", "Done", "Error"}
          /\ heap[r].State \in {"Done", "Error"} => heap'[r].State = heap[r].State]_vars

\* C6: within one task the extraction destination, the path the extracted file is
\* looked for at, the converter's input and output and the conversion log all lie
\* in one output directory, and the container handed to mkvextract is the one the
\* file names were derived from.
C6_TaskPathsFixed ==
    \A w \in 1..Len(workers) :
        /\ Cardinality({workers[w].exDir, workers[w].statDir,
                        workers[w].convDir, workers[w].logDir} \ {""}) <= 1
        /\ workers[w].src # "" => workers[w].src = workers[w].base

\* C7: a task whose converter is absent (PGS script, vobsub2srt binary) ends in
\* Error: its terminal update marks the track Error, and a worker is never left
\* ended with such a track not marked Error.
C7_MissingConverterIsError ==
    /\ [](\A w \in 1..Len(workers) :
            (Ended(w) /\ NoneQueued(w) /\ workers[w].missing) =>
                heap[CurRef(w)].State = "Error")
    /\ [][(RunsTerminal /\ Head(uiQueue).ownMissing) =>
             heap'[Head(uiQueue).t].State = "Error"]_vars

\* C8: when the PGS converter exits non-zero having written partial output to its
\* temporary file (and the copy itself goes through), the partial content is at
\* the final path when the task ends, the task's error is the converter's exit
\* error, and the track is marked Error.
C8_PartialOutputPromotedAndError ==
    /\ [](\A w \in 1..Len(workers) :
            (workers[w].pc = "terminal" /\ workers[w].branch = "pgs"
                /\ workers[w].promoted = "partial" /\ workers[w].err # "nil") =>
                /\ workers[w].err = "exit"
                /\ Exists(fs, FinalPath(w))
                /\ fs[FinalPath(w)].kind = "partial")
    /\ [][(RunsTerminal /\ Head(uiQueue).ownBranch = "pgs"
              /\ Head(uiQueue).ownPromoted = "partial"
              /\ Head(uiQueue).ownErr = "exit") =>
             heap'[Head(uiQueue).t].State = "Error"]_vars

\* C9: a PGS track with conversion opted in whose extraction leaves a zero-byte
\* .sup file gets no conversion (nothing is prepared or run for it) and its
\* terminal update marks it Error.
C9_EmptySupIsErrorWithoutConversion ==
    /\ [](\A w \in 1..Len(workers) :
            (workers[w].branch = "pgs" /\ workers[w].err = "empty") =>
                workers[w].pc = "terminal")
    /\ [][(RunsTerminal /\ Head(uiQueue).ownBranch = "pgs"
              /\ Head(uiQueue).ownErr = "empty") =>
             heap'[Head(uiQueue).t].State = "Error"]_vars

\* C10: for every converter (PGS, ASS/SSA, VobSub), while the converter process
\* of a task is running that task has put nothing at its final output path.
C10_NothingAtFinalPathWhileRunning ==
    \A w \in 1..Len(workers) :
        workers[w].pc \in {"pgs_running", "ass_running", "vob_running"} =>
            ~(Exists(fs, FinalPath(w)) /\ fs[FinalPath(w)].by = w)

\* the converter process of worker w's task returns in this step
ConversionEnds(w) ==
    /\ workers[w].pc \in {"pgs_running", "ass_running", "vob_running"}
    /\ workers'[w].pc \notin {"pgs_running", "ass_running", "vob_running"}

\* C11: when the conversion of a task ends (for PGS: with the copy to the final
\* path gone through), whatever is at the task's final path is the output of this
\* conversion: a file an earlier run left there has been replaced, not kept.
C11_StaleOutputReplaced ==
    [][\A w \in 1..Len(workers) :
          (ConversionEnds(w)
              /\ (workers[w].branch = "pgs" => workers'[w].promoted # "none")
              /\ Exists(fs', FinalPath(w))) =>
             fs'[FinalPath(w)].by = w]_vars

\* the codec family a codec string names, whatever its case or alias
FamilyOf(codec) ==
    CASE codec \in {"SubRip/SRT"} -> "text"
      [] codec \in {"SubStationAlpha", "ass"} -> "ass"
      [] codec \in {"HDMV PGS", "hdmv_pgs_subtitle", "hdmv pgs"} -> "pgs"
      [] codec \in {"VobSub", "VOBSUB"} -> "vob"
      [] OTHER -> "other"

\* the row of the decision table for a track: strategy (as the branch that carries
\* it out) and target extension
TableRow(t) ==
    LET opted == t.ConvertOCR = "checked"
        f == FamilyOf(t.Codec)
    IN CASE f = "text" -> [branch |-> "pass", ext |-> Chars("srt")]
         [] f = "ass" -> IF opted THEN [branch |-> "ass", ext |-> Chars("srt")]
                         ELSE [branch |-> "pass", ext |-> Chars("ass")]
         [] f = "pgs" -> IF opted THEN [branch |-> "pgs", ext |-> Chars("srt")]
                         ELSE [branch |-> "pass", ext |-> Chars("sup")]
         [] f = "vob" -> IF opted THEN [branch |-> "vob", ext |-> Chars("srt")]
                         ELSE [branch |-> "pass", ext |-> Chars("idx")]
         [] OTHER -> [branch |-> "pass",
                      ext |-> ToLower([k \in 1..Len(Chars(t.Codec)) |->
                                  IF Chars(t.Codec)[k] = "/" THEN "_" ELSE Chars(t.Codec)[k]])]

\* C12: every listed track is given the strategy and the target extension of its
\* row in the decision table (text: pass-through srt; ASS/SSA, PGS, VobSub:
\* conversion to srt when opted in, else pass-through ass, sup, idx; anything
\* else: pass-through with the lower-cased codec name, slashes replaced). Stated
\* for the codec names mkvmerge reports and for the empty codec.
C12_ClassificationMatchesTable ==
    probe.pc = "named" =>
        \A k \in 1..Len(probe.items) :
            probe.items[k].Codec \in {"SubRip/SRT", "SubStationAlpha", "HDMV PGS",
                                      "VobSub", "Timed Text", ""} =>
            [branch |-> probe.names[k].branch, ext |-> probe.names[k].ext]
                = TableRow(probe.items[k])

\* C13: two listed tracks whose codec strings name the same family (they differ
\* in case, or are aliases) are offered the conversion option alike at load time
\* and, with the option in the same position, get the same strategy and extension.
C13_ClassificationCaseAliasInvariant ==
    probe.pc = "named" =>
        \A k1, k2 \in 1..Len(probe.items) :
            (FamilyOf(probe.items[k1].Codec) = FamilyOf(probe.items[k2].Codec)
                /\ FamilyOf(probe.items[k1].Codec) # "other") =>
                /\ (probe.items[k1].ConvertOCR = "nil") <=> (probe.items[k2].ConvertOCR = "nil")
                /\ probe.items[k1].ConvertOCR = probe.items[k2].ConvertOCR =>
                     /\ probe.names[k1].branch = probe.names[k2].branch
                     /\ probe.names[k1].ext = probe.names[k2].ext

\* C14: two distinct tracks of one batch never share a file name: in the GUI
\* neither the extracted file nor outFile of one track equals either file of
\* another, and the command line never builds one name for two tracks.
C14_NoFileNameCollision ==
    /\ probe.pc = "named" =>
          \A k1, k2 \in 1..Len(probe.names) :
              k1 # k2 => {probe.names[k1].inter, probe.names[k1].final}
                            \cap {probe.names[k2].inter, probe.names[k2].final} = {}
    /\ cli.pc # "off" =>
          \A k1, k2 \in 1..Len(cli.files) : k1 # k2 => cli.files[k1] # cli.files[k2]

\* two unnamed tracks without a language, both extracted to the same extension
C14_Witness ==
    /\ probe.pc = "named"
    /\ Len(probe.items) = 2
    /\ probe.items[1].Lang = "und" /\ probe.items[2].Lang = "und"
    /\ probe.names[1].ext = probe.names[2].ext
    /\ probe.names[1].final # probe.names[2].final

\* the n-th subtitle track of a report
NthSubtitle(tracks, n) == SelectSeq(tracks, LAMBDA m : m.type = "subtitles")[n]

\* C15: in the GUI the outFile of a track is
\* <containerBase>.track<number>_<language>.<extension> with the track's 1-based
\* number, not its id.
C15_GuiFileNameFormat ==
    probe.pc = "named" =>
        \A k \in 1..Len(probe.names) :
            probe.names[k].final =
                Chars("a") \o Chars(".track")
                    \o Itoa(SelectSeq(probe.tracks, LAMBDA m : ~Skipped(m))[k].number)
                    \o <<"_">> \o Chars(probe.items[k].Lang) \o <<".">> \o probe.names[k].ext

\* no two dots in a row and no dot at the end
NoEmptySegment(name) ==
    /\ name[Len(name)] # "."
    /\ \A i \in 1..(Len(name) - 1) : ~(name[i] = "." /\ name[i + 1] = ".")

\* <dir>/<containerBase>.<language>.<3-digit number>[.<trackName>][.forced].<ext>
\* for the input d/a.mkv
CliExpectedName(track, ext) ==
    <<"d", "/", "a", ".">> \o Chars(track.lang) \o <<".">>
        \o (IF track.number < 10 THEN <<"0", "0">> ELSE <<"0">>) \o Itoa(track.number)
        \o (IF track.name # "" THEN <<".">> \o Chars(track.name) ELSE << >>)
        \o (IF track.forced THEN <<".", "f", "o", "r", "c", "e", "d">> ELSE << >>)
        \o <<".">> \o ext

\* C16: every name buildSubtitlesFileName returns for d/a.mkv and a track that
\* has a language is d/a.<language>.<3-digit number>[.<trackName>][.forced].<extension>,
\* with a non-empty extension and no empty segment.
C16_CliFileNameFormat ==
    (cli.pc # "off" /\ cli.arg.path = "d/a.mkv") =>
        \A n \in 1..Len(cli.files) :
            NthSubtitle(cli.out.tracks, n).lang # "" =>
            /\ subtitleExtensionByCodec(NthSubtitle(cli.out.tracks, n).codecId) # << >>
            /\ cli.files[n] = CliExpectedName(NthSubtitle(cli.out.tracks, n),
                                 subtitleExtensionByCodec(NthSubtitle(cli.out.tracks, n).codecId))
            /\ NoEmptySegment(cli.files[n])

\* C17: with a container type other than Matroska in the report, Load Tracks
\* lists no track, and the command line ends its handler with an error without
\* extracting anything.
C17_NonMatroskaRejected ==
    /\ probe.pc \in {"listed", "named"} => IsMatroska(probe.container)
    /\ (cli.pc \in {"extract", "returned", "exited"} /\ cli.arg.kind = "file"
            /\ cli.out.run = "ok" /\ ~IsMatroska(cli.out.container)) =>
          (cli.ret = "err" /\ cli.files = << >>)

\* C18: a report of another shape (a subtitle track object without id or codec,
\* output that does not decode) ends the inspection with an error, never with a
\* crash, and a track with an empty codec is extracted by the fallback branch.
C18_MalformedMetadataIsError ==
    /\ probe.pc # "crashed"
    /\ probe.pc = "named" =>
          \A k \in 1..Len(probe.items) :
              probe.items[k].Codec = "" => probe.names[k].branch = "pass"
    /\ (cli.pc \in {"returned", "exited"} /\ cli.arg = [kind |-> "file", path |-> "d/a.mkv"]
            /\ cli.out.run = "badjson") => cli.ret = "err"

\* the command line inspected its input and extracted every subtitle track
CliFullSuccess ==
    /\ cli.arg.kind = "file"
    /\ cli.out.run = "ok"
    /\ IsMatroska(cli.out.container)
    /\ cli.ret = "nil"
    /\ cli.k > Len(cli.out.tracks)

\* C19: the command-line process ends with status 0 only on full success: with an
\* input that is missing or a directory, a failed or undecodable mkvmerge run or
\* a container that is not Matroska, the status is not 0.
C19_CliExitCode ==
    (cli.pc = "exited" /\ cli.code = ErrCodeSuccess) => CliFullSuccess

\* C20: every terminal update, Done or Error, leaves the progress value at the
\* number of tasks of the batch that have ended: the completed count of the task
\* plus one.
C20_ProgressCountsEveryTerminal ==
    [][RunsTerminal => progress'.value = Head(uiQueue).ownDone + 1]_vars

\* the worker w reads the Check boxes in this step
Selects(w) == workers[w].pc = "select" /\ workers'[w].pc # "select"

\* C21: a batch processes exactly the tracks that are checked when the worker
\* reads the list, in list order, each once: what it selects is the checked
\* tracks in list order, it goes through them one by one, and when its goroutine
\* has ended it has gone through all of them.
C21_BatchProcessesCheckedTracks ==
    /\ [][\A w \in 1..Len(workers) :
            /\ Selects(w) =>
                 workers'[w].selected = SelectSeq(trackItems, LAMBDA r : heap[r].Checked)
            /\ workers'[w].i \in {workers[w].i, workers[w].i + 1}]_vars
    /\ [](\A w \in 1..Len(workers) :
            Ended(w) => workers[w].i = Len(workers[w].selected) + 1)

\* the task i of worker w has reached its terminal state or was left behind
TaskOver(w, i) ==
    \/ workers[w].i > i
    \/ workers[w].i = i /\ workers[w].pc \in {"terminal", "returned"}

\* the ticker of task i of worker w posts an update in this step
TickPosted(w, i) ==
    /\ i \in workers[w].ticking
    /\ uiQueue' = Append(uiQueue, Closure("tick", w, workers[w].selected[i]))
    /\ workers' = workers

\* C22: for every conversion the ticker started for a task is stopped by the time
\* the task reaches its terminal state, on every path, and its goroutine posts no
\* update after the task has ended.
C22_TickerStoppedAtTerminal ==
    /\ [](\A w \in 1..Len(workers) : \A i \in workers[w].ticking : ~TaskOver(w, i))
    /\ [][\A w \in 1..Len(workers) : \A i \in 1..MaxTracks :
            TickPosted(w, i) => ~TaskOver(w, i)]_vars

\* the batch of worker w has finished: the loop is over and the final update has run
BatchFinished(w) == workers[w].pc = "done" /\ NoneQueued(w)

\* C23: when a batch has finished, every failure of one of its tasks is still
\* shown: for each track of the batch marked Error the result text has an entry
\* that names the track and carries the failure; neither a later task's update
\* nor the final message has erased it.
C23_FailuresStayVisible ==
    \A w \in 1..Len(workers) :
        BatchFinished(w) =>
            \A k \in 1..Len(workers[w].selected) :
                heap[workers[w].selected[k]].State = "Error" =>
                    \E e \in result : e.t = workers[w].selected[k] /\ e.named

\* a dropdown text naming a code that is in neither langCodeMap
OptionOf(code) == <<"X", " ", "(">> \o Chars(code) \o <<")">>

\* C24: a language code without an entry in the lookup table goes to the
\* converter unchanged and the task goes on: in the VobSub path a track language
\* without an entry is used as it is, in the PGS path a selected code without an
\* entry is used as it is, and a language is derived in every case.
C24_UnmappedLanguagePassesThrough ==
    probe.pc = "spoken" =>
          /\ probe.code # << >>
          /\ (probe.branch = "vob" /\ ~UserPicked(probe.selected)
                 /\ ~HasKey(LangCodeMap3to2, ToLower(Chars(probe.lang)))) =>
                probe.code = Chars(probe.lang)
          /\ (probe.branch = "pgs" /\ UserPicked(probe.selected) /\ HasCode(probe.selected)
                 /\ ~HasKey(LangCodeMap2to3, SelectedCode(probe.selected))) =>
                probe.code = SelectedCode(probe.selected)
          /\ \A c \in {"und", "mul"} : PgsLanguage(probe.lang, OptionOf(c)) = Chars(c)

\* a VobSub track of undetermined language, the dropdown left on Auto
C24_Witness ==
    /\ probe.pc = "spoken"
    /\ probe.branch = "vob"
    /\ probe.lang = "und"
    /\ ~UserPicked(probe.selected)
    /\ probe.code = Chars("und")

\* C25: the two language tables form one bidirectional mapping: every 2-letter
\* code of the 2-to-3 table comes back from its 3-letter code through the 3-to-2
\* table, and every language of the dropdown has an entry in the 2-to-3 table.
\* For a track whose language was picked in the dropdown, the PGS language is
\* its table entry, and that entry leads back to the picked code.
C25_LanguageTablesBidirectional ==
    /\ probe.pc = "spoken" =>
          /\ \A p \in LangCodeMap2to3 :
                /\ HasKey(LangCodeMap3to2, Chars(p[2]))
                /\ Lookup(LangCodeMap3to2, Chars(p[2])) = Chars(p[1])
          /\ \A k \in 2..Len(langOptions(probe.lang)) :
                HasKey(LangCodeMap2to3, SelectedCode(langOptions(probe.lang)[k]))
    /\ (probe.pc = "spoken" /\ probe.branch = "pgs" /\ UserPicked(probe.selected)) =>
          /\ HasKey(LangCodeMap2to3, SelectedCode(probe.selected))
          /\ probe.code = Lookup(LangCodeMap2to3, SelectedCode(probe.selected))
          /\ HasKey(LangCodeMap3to2, probe.code)
          /\ Lookup(LangCodeMap3to2, probe.code) = SelectedCode(probe.selected)

\* a PGS track with German picked in the dropdown
C25_Witness ==
    /\ probe.pc = "spoken"
    /\ probe.branch = "pgs"
    /\ probe.selected = Chars("German (de)")
    /\ probe.code = Chars("deu")

\* the conversion log of the task worker w is at
LogFile(w) == TrackFile(workers[w].logDir, workers[w].base, Cur(w), Chars("conversion.log"))

\* C28: every conversion attempt of every converter (PGS, ASS/SSA, VobSub) writes
\* one conversion log beside the converted output: while the converter of a task
\* runs, the task has created its log (or tried to), and a log it created is on
\* disk in the directory of the output.
C28_EveryConversionLogged ==
    \A w \in 1..Len(workers) :
        workers[w].pc \in {"pgs_running", "ass_running", "vob_running"} =>
            /\ workers[w].log # "none"
            /\ workers[w].log = "created" =>
                  (Exists(fs, LogFile(w)) /\ workers[w].logDir = workers[w].convDir)

\* C26: with no line of the converter matching the frame-counter pattern the
\* conversion is not failed for that reason: the remaining-time display stays
\* indeterminate, and the task's error is that of the converter's exit status and
\* of the copy of its output, whatever was or was not matched.
C26_NoProgressIsNoError ==
    /\ []((probe.pc \in {"converting", "converted"} /\ probe.matched = 0) =>
            probe.remaining = "calculating...")
    /\ [][(probe.pc = "converting" /\ probe'.pc = "converted") =>
            \E exitOk, copyOk \in BOOLEAN :
                /\ probe'.err = "nil" <=> (exitOk /\ copyOk)
                /\ probe'.err = "exit" <=> ~exitOk
                /\ MeterExit(exitOk, copyOk)]_vars

\* a conversion that ended well although none of its lines matched, the ticker
\* having fired
C26_Witness ==
    /\ probe.pc = "converted"
    /\ probe.lines > 0
    /\ probe.matched = 0
    /\ probe.err = "nil"
    /\ probe.remaining = "calculating..."

\* a line "Processing frame cur/..." is matched in this step
FrameLineMatched == probe.pc = "converting" /\ probe'.pc = "converting"
                       /\ probe'.matched = probe.matched + 1

\* C27: on every matched frame-counter line, of standard output or standard
\* error, the throughput estimate becomes 70% of the previous estimate plus 30%
\* of the new sample (frames advanced over the time since the previous match),
\* the first sample taken as it is; without an advance of frames and time it is
\* left alone; it is never negative.
C27_ThroughputSmoothed ==
    /\ [](probe.pc \in {"converting", "converted"} => probe.frameRate.num >= 0)
    /\ [][FrameLineMatched =>
            probe'.frameRate.num * Smoothed(probe, probe'.currentFrame, probe'.now).den
                = Smoothed(probe, probe'.currentFrame, probe'.now).num * probe'.frameRate.den]_vars

\* C29: a subtitle track whose metadata has no language gets the language "und",
\* and "und" is what its output file name carries, in the GUI (Load Tracks and
\* the names the worker derives) and on the command line alike.
C29_MissingLanguageIsUnd ==
    /\ probe.pc = "named" =>
          \A k \in 1..Len(probe.items) :
              SelectSeq(probe.tracks, LAMBDA m : ~Skipped(m))[k].lang = "" =>
                  /\ probe.items[k].Lang = "und"
                  /\ Contains(probe.names[k].final, <<"_">> \o Chars("und") \o <<".">>)
    /\ (cli.pc # "off" /\ cli.arg.path = "d/a.mkv") =>
          \A n \in 1..Len(cli.files) :
              NthSubtitle(cli.out.tracks, n).lang = "" =>
                  Contains(cli.files[n], <<".">> \o Chars("und") \o <<".">>)

\* the result text, the progress bar, a track's state or the track list changes
UiStateChanges ==
    \/ result' # result
    \/ progress' # progress
    \/ trackItems' # trackItems
    \/ \E r \in 1..Len(heap) : heap'[r].State # heap[r].State

\* a step of the main goroutine: an event handler, or a closure taken from the
\* update queue
MainGoroutineStep ==
    \/ clicks' = clicks + 1
    \/ uiQueue # << >> /\ uiQueue' = Tail(uiQueue) /\ workers' = workers

\* C30: during a batch the result text, the progress value, the track states and
\* the track list are changed only by steps of the main goroutine (closures of
\* the update queue, event handlers): no step of a worker, of a ticker or of a
\* stream reader changes them.
C30_UiMutatedOnUpdateQueueOnly ==
    [][UiStateChanges => MainGoroutineStep]_vars

\* a batch under way whose first track the update queue has marked Done
C30_Witness ==
    \E w \in 1..Len(workers) :
        /\ workers[w].pc \notin {"select", "done", "returned", "exit"}
        /\ workers[w].i = 2
        /\ heap[workers[w].selected[1]].State = "Done"
        /\ progress.value > 0

\* C31: every track of the track list was loaded from the container selected
\* now: the list is empty, or it is the list of the subtitle tracks mkvmerge
\* reports for mkvPath, track by track (selecting or dropping a file empties the
\* list, Load Tracks replaces it with the tracks of the current file).
C31_TrackListOfCurrentFile ==
    trackItems # << >> =>
        /\ mkvPath # NoPath
        /\ Len(trackItems) = Len(MkvmergeTracks(mkvPath))
        /\ \A k \in 1..Len(trackItems) :
              /\ heap[trackItems[k]].Num = MkvmergeTracks(mkvPath)[k].id
              /\ heap[trackItems[k]].Codec = MkvmergeTracks(mkvPath)[k].codec

\* the tracks of a second container are listed, the first container's tracks
\* having been listed before
C31_Witness ==
    /\ trackItems # << >>
    /\ Len(heap) > Len(trackItems)
    /\ trackItems[1] > 1
    /\ heap[1].Codec # heap[trackItems[1]].Codec

\* the path at which the task worker w is at leaves its converted output
ConvertedPath(w) == IF workers[w].branch = "vob" THEN VobFinalPath(w) ELSE FinalPath(w)

\* C32: a task ends in success (its track is to be marked Done) only with a file
\* at its final output path; stated here for the three conversions with the
\* converter found: a converter that exits with status 0 without having produced
\* its output does not give Done.
C32_DoneOnlyWithOutputFile ==
    \A w \in 1..Len(workers) :
        (workers[w].pc = "terminal" /\ workers[w].err = "nil"
            /\ workers[w].branch \in {"pgs", "ass", "vob"} /\ ~workers[w].missing) =>
            Exists(fs, ConvertedPath(w))

\* C33: when the PGS conversion result is reported, every line the converter
\* wrote before exiting has been written to the log file and to the captured
\* output: the readers have finished before the captured output is read.
C33_AllOutputCaptured ==
    probe.pc = "converted" =>
        /\ probe.pipe = 0
        /\ probe.captured = probe.written

\* C34: once a batch is over (the worker has ended and no update of it is left on
\* the queue), the overall progress bar is visible again, whatever track types
\* the batch held.
C34_ProgressBarVisibleAfterBatch ==
    \A w \in 1..Len(workers) :
        (w = Len(workers) /\ Ended(w) /\ NoneQueued(w)) => progress.visible

\* C39: whenever the final update of a batch is waiting to run or runs, the
\* worker's counter tracksDone equals the number of selected tracks, however many
\* of them failed: the final update takes the "Extraction complete!" side and
\* never the "Extraction stopped after k of n tracks" side.
C39_FinalUpdateSeesFullCount ==
    \A k \in 1..Len(uiQueue) :
        uiQueue[k].kind = "final" =>
            workers[uiQueue[k].w].tracksDone = Len(workers[uiQueue[k].w].selected)

\* the final update is next to run for a batch one of whose tracks was marked Error
C39_Witness ==
    /\ uiQueue # << >>
    /\ uiQueue[1].kind = "final"
    /\ \E k \in 1..Len(workers[uiQueue[1].w].selected) :
          heap[workers[uiQueue[1].w].selected[k]].State = "Error"

\* C37: for an existing regular file, the handler's checks before the loop end
\* either with the file accepted for extraction or with an error returned by the
\* handler (a name not ending in .mkv, or a later check failing); the MKV-name
\* check never crashes the run, whatever the length of the name.
C37_NameCheckNeverCrashes ==
    [][(CliInspect /\ cli.arg.kind = "file") =>
          \/ cli'.pc = "extract" /\ isMKVFile(Chars(cli.arg.path))
          \/ cli'.pc = "returned" /\ cli'.ret = "err"]_vars

\* C38: when the path does not exist or is a directory, the Extract handler
\* returns a non-nil error and no tool has been invoked (no file was extracted).
C38_MissingOrDirectoryIsError ==
    [][(CliInspect /\ cli.arg.kind \in {"missing", "dir"}) =>
          /\ cli'.pc = "returned"
          /\ cli'.ret = "err"
          /\ cli'.files = << >>]_vars

\* C35: after a sequence of Fix SRT Encoding and Fix SRT Timing operations on one
\* SRT file, the last of them successful, the .bak file next to it holds the
\* content the file had before the first of those operations.
C35_BackupHoldsOriginal ==
    (probe.pc = "srt"
        /\ probe.msg \in {"SRT encoding fixed successfully", "SRT timing adjusted successfully"}) =>
        probe.bak = File(probe.original)

\* time u is time t moved by d milliseconds and held at zero
Shifted(t, u, d) == ToMs(u) = (IF ToMs(t) + d < 0 THEN 0 ELSE ToMs(t) + d)

\* minutes and seconds below 60
NormalForm(t) == t.m < 60 /\ t.s < 60 /\ t.ms < 1000

\* What adjustSRTTiming does to content in, giving out, for a shift of d
\* milliseconds: the lines are as many, a line without timestamps is the same, a
\* line with timestamps keeps the text around them and has both times moved by d
\* and held at zero, and the duration is the same when neither time was held.
TimingShift(in, out, d) ==
    /\ Len(out) = Len(in)
    /\ \A k \in 1..Len(in) :
          /\ in[k].kind # "time" => out[k] = in[k]
          /\ in[k].kind = "time" =>
                /\ out[k].kind = "time"
                /\ out[k].around = in[k].around
                /\ Shifted(in[k].start, out[k].start, d)
                /\ Shifted(in[k].end, out[k].end, d)
                /\ (ToMs(in[k].start) + d >= 0 /\ ToMs(in[k].end) + d >= 0) =>
                      ToMs(out[k].end) - ToMs(out[k].start) = ToMs(in[k].end) - ToMs(in[k].start)

\* the shifts the offsets of the dialog stand for
Shifts == {-2000, 0, 1, 1000}

\* C36: adjustSRTTiming keeps the number of lines and every line without
\* timestamps, moves both times of a timestamp line by the same whole number of
\* milliseconds, held at zero, keeps a cue's duration when neither time is held,
\* and returns the content unchanged for an offset of 0.
C36_TimingChangesOnlyTimestamps ==
    [][\A offset \in Offsets :
          SrtFixTiming(offset, "ok", TRUE, TRUE, TRUE) =>
              /\ \E d \in Shifts : TimingShift(probe.file, probe'.file, d)
              /\ offset = 0 => probe'.file = probe.file]_vars

\* C36 (amended): as above, and for an offset of 0 the content is unchanged when
\* the times of its timestamp lines are in normal form (minutes and seconds below
\* 60); otherwise each time is rewritten in normal form and stands for the same
\* instant. The shift is the offset in milliseconds with its fraction dropped.
C36_TimingChangesOnlyTimestampsNormalForm ==
    [][\A offset \in Offsets :
          SrtFixTiming(offset, "ok", TRUE, TRUE, TRUE) =>
              /\ TimingShift(probe.file, probe'.file,
                             IF offset >= 0 THEN offset \div 10 ELSE -((-offset) \div 10))
              /\ \A k \in 1..Len(probe.file) :
                    probe.file[k].kind = "time" =>
                        NormalForm(probe'.file[k].start) /\ NormalForm(probe'.file[k].end)
              /\ (offset = 0 /\ \A k \in 1..Len(probe.file) :
                                   probe.file[k].kind = "time" =>
                                       NormalForm(probe.file[k].start) /\ NormalForm(probe.file[k].end))
                    => probe'.file = probe.file]_vars

\* a first timing operation has moved a cue back: its start was held at zero, its
\* end was not, and the text line is as it was
C36_Witness ==
    /\ probe.pc = "srt"
    /\ probe.ops = 1
    /\ probe.msg = "SRT timing adjusted successfully"
    /\ probe.offset < 0
    /\ ToMs(probe.original[2].start) > 0
    /\ ToMs(probe.file[2].start) = 0
    /\ ToMs(probe.file[2].end) > 0
    /\ probe.file[3] = probe.original[3]

====
